---------------------------- MODULE Spec2Model ----------------------------
(***************************************************************************)
(* A model of the recipe extraction pipeline of                            *)
(* scripts/generate_recipe_dataset.py: the PDF string decoder, the         *)
(* content-stream tokenizer, the title/URL pairer, the segmenter, the      *)
(* classifier and the run loop of main(); and of the two image caching     *)
(* scripts, cache_recipe_images.py and cache_source_preview_images.py.     *)
(*                                                                         *)
(* Text is modelled as a sequence of characters, a character being a       *)
(* one-character string; the Python indices (0-based) are shifted by one.  *)
(* Each component has its own specification (SpecDecode, SpecPairs, ...)   *)
(* which drives that component from every input of a bounded set and       *)
(* leaves the others idle.                                                 *)
(***************************************************************************)
EXTENDS Integers, Sequences, FiniteSets, TLC

VARIABLES dec,    \* decode_pdf_string: [data, i, out, pc]
          pr,     \* the pairer loop of parse_pdf_pairs: [lines, i, title, pairs, pc, ...]
          tok,    \* the tokenizer of parse_pdf_pairs: [streams, s, texts, lines, pc]
          run,    \* the run loop of main: [pairs, idx, results, failures, pc]
          res,    \* the meta-tag resolver of cache_source_preview_images
          seg,    \* the segmenter: the ingredient scan and the step scan
          cls,    \* the classifier: infer_tags and infer_meal_types
          cch     \* update_recipes and main of the two cache scripts

vars == <<dec, pr, tok, run, res, seg, cls, cch>>

Idle == [pc |-> "idle"]

(***************************************************************************)
(* Bounds of the model.                                                    *)
(***************************************************************************)
MaxEscLen == 3      \* literals over the whole decoder alphabet
MaxOctLen == 5      \* literals over backslash and digits: reaches a 4th digit
MaxLines == 4       \* lines handed to the pairer
MaxOps == 3         \* show operators and stream ends of a document
MaxItems == 2       \* (title, url) pairs of a run

\* All sequences over S of length at most n.
SeqsUpTo(S, n) == UNION {[1..k -> S] : k \in 0..n}

(***************************************************************************)
(* decode_pdf_string                                                       *)
(***************************************************************************)
OctDigits == {"0", "1", "2", "3", "4", "5", "6", "7"}

DigitVal(c) ==
  CASE c = "0" -> 0 [] c = "1" -> 1 [] c = "2" -> 2 [] c = "3" -> 3
    [] c = "4" -> 4 [] c = "5" -> 5 [] c = "6" -> 6 [] c = "7" -> 7

\* int(oct_digits, 8)
RECURSIVE OctVal(_)
OctVal(ds) ==
  IF ds = <<>> THEN 0
  ELSE 8 * OctVal(SubSeq(ds, 1, Len(ds) - 1)) + DigitVal(ds[Len(ds)])

\* chr(n): the character with code n.  The characters the model writes
\* out are named by themselves, every other one by its code.
Chr(n) ==
  CASE n = 9 -> "\t" [] n = 10 -> "\n" [] n = 12 -> "\f"
    [] n = 13 -> "\r" [] n = 32 -> " " [] n = 40 -> "(" [] n = 41 -> ")"
    [] n = 48 -> "0" [] n = 53 -> "5" [] n = 56 -> "8" [] n = 72 -> "H"
    [] n = 92 -> "\\" [] n = 97 -> "a" [] n = 105 -> "i" [] n = 110 -> "n"
    [] OTHER -> "chr" \o ToString(n)

\* The inner while loop: the number j of octal digits taken, the first
\* (at i) included.
RECURSIVE OctRunMore(_, _, _)
OctRunMore(data, i, j) ==
  IF j < 4 /\ i + j <= Len(data) /\ data[i + j] \in OctDigits
  THEN OctRunMore(data, i, j + 1)
  ELSE j

RECURSIVE OctRun(_, _, _)
OctRun(data, i, j) ==
  IF j < 3 /\ i + j <= Len(data) /\ data[i + j] \in OctDigits
  THEN OctRun(data, i, j + 1)
  ELSE j

\* One iteration of the while loop, from index i with out collected so
\* far: the next index, the new out, and whether the loop was left by break.
DecodeIter(data, i, out) ==
  LET ch == data[i] IN
  IF ch = "\\"
  THEN
    IF i + 1 > Len(data)
    THEN [i |-> i + 1, out |-> out, brk |-> TRUE]
    ELSE
      LET esc == data[i + 1] IN
      IF esc \in {"(", ")", "\\"}
      THEN [i |-> i + 2, out |-> Append(out, esc), brk |-> FALSE]
      ELSE IF esc = "n"
      THEN [i |-> i + 2, out |-> Append(out, "\n"), brk |-> FALSE]
      ELSE IF esc = "r"
      THEN [i |-> i + 2, out |-> Append(out, "\r"), brk |-> FALSE]
      ELSE IF esc = "t"
      THEN [i |-> i + 2, out |-> Append(out, "\t"), brk |-> FALSE]
      ELSE IF esc = "b"
      THEN [i |-> i + 2, out |-> Append(out, Chr(8)), brk |-> FALSE]
      ELSE IF esc = "f"
      THEN [i |-> i + 2, out |-> Append(out, "\f"), brk |-> FALSE]
      ELSE IF esc \in OctDigits
      THEN
        LET j == OctRun(data, i + 1, 1) IN
        [i   |-> i + 1 + (j - 1) + 1,
         out |-> Append(out, Chr(OctVal(SubSeq(data, i + 1, i + j)))),
         brk |-> FALSE]
      ELSE [i |-> i + 2, out |-> Append(out, esc), brk |-> FALSE]
  ELSE [i |-> i + 1, out |-> Append(out, ch), brk |-> FALSE]

RECURSIVE DecodeLoop(_, _, _)
DecodeLoop(data, i, out) ==
  IF i > Len(data) THEN out
  ELSE LET r == DecodeIter(data, i, out) IN
       IF r.brk THEN r.out ELSE DecodeLoop(data, r.i, r.out)

decode_pdf_string(data) == DecodeLoop(data, 1, <<>>)

\* The literals the decoder is driven with.
EscChars == {"\\", "(", ")", "n", "r", "t", "b", "f", "5", "8", "a"}
OctChars == {"\\", "0", "5", "8"}
DecodeInputs == SeqsUpTo(EscChars, MaxEscLen) \cup SeqsUpTo(OctChars, MaxOctLen)

DecodeInit ==
  /\ dec \in {[data |-> d, i |-> 1, out |-> <<>>, pc |-> "loop"] : d \in DecodeInputs}
  /\ pr = Idle /\ tok = Idle /\ run = Idle
  /\ res = Idle /\ seg = Idle /\ cls = Idle /\ cch = Idle

\* One iteration of `while i < len(data)`.
DecodeStep ==
  /\ dec.pc = "loop"
  /\ dec.i <= Len(dec.data)
  /\ LET r == DecodeIter(dec.data, dec.i, dec.out) IN
     dec' = [dec EXCEPT !.i = r.i, !.out = r.out,
                        !.pc = IF r.brk THEN "done" ELSE "loop"]
  /\ UNCHANGED <<pr, tok, run, res, seg, cls, cch>>

\* The loop condition fails: return "".join(out).
DecodeReturn ==
  /\ dec.pc = "loop"
  /\ dec.i > Len(dec.data)
  /\ dec' = [dec EXCEPT !.pc = "done"]
  /\ UNCHANGED <<pr, tok, run, res, seg, cls, cch>>

DecodeNext == DecodeStep \/ DecodeReturn

SpecDecode == DecodeInit /\ [][DecodeNext]_vars

(***************************************************************************)
(* Properties of decode_pdf_string.                                        *)
(***************************************************************************)
\* The iteration appends the single character c and consumes n characters.
DecEmits(c, n) ==
  /\ dec'.out = Append(dec.out, c)
  /\ dec'.i = dec.i + n
  /\ dec'.data = dec.data

\* What one step does with an octal escape whose first digit is at i + 1:
\* k digits, at most three and as many as there are, give one character.
DecOctal ==
  LET d == dec.data
      i == dec.i
  IN \E k \in 1..3 :
       /\ i + k <= Len(d)
       /\ \A m \in 1..k : d[i + m] \in OctDigits
       /\ k = 3 \/ i + k = Len(d) \/ d[i + k + 1] \notin OctDigits
       /\ LET v == CASE k = 1 -> DigitVal(d[i + 1])
                     [] k = 2 -> 8 * DigitVal(d[i + 1]) + DigitVal(d[i + 2])
                     [] k = 3 -> 64 * DigitVal(d[i + 1]) + 8 * DigitVal(d[i + 2])
                                 + DigitVal(d[i + 3])
          IN DecEmits(Chr(v), k + 1)

\* What one step of the decoder does, case by case as the claim lists them.
DecStepAsClaimed ==
  LET d == dec.data
      i == dec.i
  IN IF i > Len(d) THEN dec'.pc = "done" /\ dec'.out = dec.out
     ELSE IF d[i] # "\\" THEN DecEmits(d[i], 1)
     ELSE IF i = Len(d) THEN dec'.pc = "done"
     ELSE LET e == d[i + 1] IN
          CASE e \in {"(", ")", "\\"} -> DecEmits(e, 2)
            [] e = "n" -> DecEmits("\n", 2)
            [] e = "r" -> DecEmits("\r", 2)
            [] e = "t" -> DecEmits("\t", 2)
            [] e = "b" -> DecEmits(Chr(8), 2)
            [] e = "f" -> DecEmits("\f", 2)
            [] e \in OctDigits -> DecOctal
            [] OTHER -> DecEmits(e, 2)

\* C10: decode_pdf_string maps its input left to right: backslash + one of
\* ( ) \ gives that character, backslash + n/r/t/b/f the control character,
\* backslash + one to three octal digits the character with that code (a
\* fourth digit stays a literal), backslash + anything else that character,
\* and an unescaped character is copied.  The output is never longer than
\* the input read so far, every step moves the index forward within
\* len(data) + 1 (so the loop ends), and "\050Hi\051" decodes to "(Hi)".
C10_DecodeMapsEscapes ==
  /\ [](dec.pc # "idle" =>
          /\ Len(dec.out) <= dec.i - 1
          /\ dec.i <= Len(dec.data) + 1
          /\ Len(dec.out) <= Len(dec.data)
          /\ dec.pc = "loop" => ENABLED DecodeNext)
  /\ [](decode_pdf_string(<<"\\", "0", "5", "0", "H", "i", "\\", "0", "5", "1">>)
          = <<"(", "H", "i", ")">>)
  /\ [][dec.pc = "loop" =>
          /\ DecStepAsClaimed
          /\ dec'.pc = "done" \/ dec'.i > dec.i]_vars

\* An octal escape of three digits followed by a fourth digit was decoded:
\* "\0505" gave "(5".
C10_Witness ==
  /\ dec.pc = "done"
  /\ dec.data = <<"\\", "0", "5", "0", "5">>
  /\ dec.out = <<"(", "5">>

(***************************************************************************)
(* Text helpers: str.lower, str.startswith, the `in` test for one          *)
(* character, and the two regular expressions of the pairer.               *)
(***************************************************************************)
LowerChar(c) ==
  CASE c = "A" -> "a" [] c = "B" -> "b" [] c = "C" -> "c" [] c = "D" -> "d"
    [] c = "E" -> "e" [] c = "F" -> "f" [] c = "G" -> "g" [] c = "H" -> "h"
    [] c = "I" -> "i" [] c = "J" -> "j" [] c = "K" -> "k" [] c = "L" -> "l"
    [] c = "M" -> "m" [] c = "N" -> "n" [] c = "O" -> "o" [] c = "P" -> "p"
    [] c = "Q" -> "q" [] c = "R" -> "r" [] c = "S" -> "s" [] c = "T" -> "t"
    [] c = "U" -> "u" [] c = "V" -> "v" [] c = "W" -> "w" [] c = "X" -> "x"
    [] c = "Y" -> "y" [] c = "Z" -> "z" [] OTHER -> c

Lower(s) == [k \in 1..Len(s) |-> LowerChar(s[k])]

StartsWith(s, p) == Len(p) <= Len(s) /\ SubSeq(s, 1, Len(p)) = p

HasChar(s, c) == \E k \in 1..Len(s) : s[k] = c

Digits == {"0", "1", "2", "3", "4", "5", "6", "7", "8", "9"}

\* s[from..to] exists and is all digits.
AllDigits(s, from, to) == to <= Len(s) /\ \A k \in from..to : s[k] \in Digits

\* re.match(r"\d{1,2}/\d{1,2}/\d{2}", s): a match at the start of s.
MatchesDate(s) ==
  \E a \in 1..2, b \in 1..2 :
    /\ AllDigits(s, 1, a)
    /\ a + 1 <= Len(s) /\ s[a + 1] = "/"
    /\ AllDigits(s, a + 2, a + 1 + b)
    /\ a + b + 2 <= Len(s) /\ s[a + b + 2] = "/"
    /\ AllDigits(s, a + b + 3, a + b + 4)

\* re.match(r"\d{1,2}:\d{2}", s)
MatchesTime(s) ==
  \E a \in 1..2 :
    /\ AllDigits(s, 1, a)
    /\ a + 1 <= Len(s) /\ s[a + 1] = ":"
    /\ AllDigits(s, a + 2, a + 3)

(***************************************************************************)
(* parse_pdf_pairs: the pairer loop over the trimmed, non-empty lines.     *)
(***************************************************************************)
\* Optional[str] None.  `if title and url` takes None and "" alike, and a
\* title is a non-empty line, so one value stands for both.
None == <<>>

HTTPS == <<"h", "t", "t", "p", "s", ":", "/", "/">>

\* lower in {"recipies", "recipes"} or lower.startswith("page ")
IsFooterLabel(line) ==
  \/ Lower(line) \in {<<"r", "e", "c", "i", "p", "i", "e", "s">>,
                      <<"r", "e", "c", "i", "p", "e", "s">>}
  \/ StartsWith(Lower(line), <<"p", "a", "g", "e", " ">>)

IsDateTime(line) == MatchesDate(line) \/ MatchesTime(line)

IsUrl(line) == StartsWith(line, HTTPS)

\* The four break tests of the inner while loop on the line nxt.
BreaksUrlNoSpaceTest(nxt) ==
  \/ StartsWith(nxt, HTTPS)
  \/ StartsWith(Lower(nxt), <<"p", "a", "g", "e", " ">>)
  \/ MatchesDate(nxt) \/ MatchesTime(nxt)

BreaksUrl(nxt) ==
  \/ StartsWith(nxt, HTTPS)
  \/ HasChar(nxt, " ")
  \/ StartsWith(Lower(nxt), <<"p", "a", "g", "e", " ">>)
  \/ MatchesDate(nxt) \/ MatchesTime(nxt)

\* The inner while loop from j: the index it ends at.
RECURSIVE UrlEnd(_, _)
UrlEnd(lines, j) ==
  IF j <= Len(lines) /\ ~BreaksUrl(lines[j]) THEN UrlEnd(lines, j + 1) ELSE j

\* url = lines[i] + lines[i + 1] + ... + lines[j - 1]
RECURSIVE UrlJoin(_, _, _)
UrlJoin(lines, i, j) ==
  IF i >= j THEN <<>> ELSE lines[i] \o UrlJoin(lines, i + 1, j)

\* The branches of one iteration of the outer loop at line i, each giving
\* the next index, the pending title and the pairs.
FooterBranch(lines, i, title, pairs) ==
  [i |-> i + 1, title |-> None, pairs |-> pairs]

DateTimeBranchClearsTitle(lines, i, title, pairs) ==
  [i |-> i + 1, title |-> None, pairs |-> pairs]

DateTimeBranch(lines, i, title, pairs) ==
  [i |-> i + 1, title |-> title, pairs |-> pairs]

UrlBranchKeepsTitle(lines, i, title, pairs) ==
  LET j   == UrlEnd(lines, i + 1)
      url == UrlJoin(lines, i, j)
  IN IF title # None /\ url # <<>>
     THEN [i |-> j, title |-> title, pairs |-> Append(pairs, <<title, url>>)]
     ELSE [i |-> j, title |-> title, pairs |-> pairs]

UrlBranch(lines, i, title, pairs) ==
  LET j   == UrlEnd(lines, i + 1)
      url == UrlJoin(lines, i, j)
  IN IF title # None /\ url # <<>>
     THEN [i |-> j, title |-> None, pairs |-> Append(pairs, <<title, url>>)]
     ELSE [i |-> j, title |-> title, pairs |-> pairs]

TitleBranchKeepsFirst(lines, i, title, pairs) ==
  [i |-> i + 1, title |-> IF title = None THEN lines[i] ELSE title, pairs |-> pairs]

TitleBranch(lines, i, title, pairs) ==
  [i |-> i + 1, title |-> lines[i], pairs |-> pairs]

PairIter(lines, i, title, pairs) ==
  IF IsFooterLabel(lines[i]) THEN FooterBranch(lines, i, title, pairs)
  ELSE IF IsDateTime(lines[i]) THEN DateTimeBranch(lines, i, title, pairs)
  ELSE IF IsUrl(lines[i]) THEN UrlBranch(lines, i, title, pairs)
  ELSE TitleBranch(lines, i, title, pairs)

RECURSIVE PairLoop(_, _, _, _)
PairLoop(lines, i, title, pairs) ==
  IF i > Len(lines) THEN pairs
  ELSE LET r == PairIter(lines, i, title, pairs) IN
       PairLoop(lines, r.i, r.title, r.pairs)

\* The pairs parse_pdf_pairs returns for these lines.
PairsOf(lines) == PairLoop(lines, 1, None, <<>>)

\* The lines the pairer is driven with: a one-word title (which, after a
\* URL, is also a URL fragment), a two-word title, a URL, the footer
\* labels, a date and a time.
LSoup == <<"S", "o", "u", "p">>
LBeefStew == <<"B", "e", "e", "f", " ", "S", "t", "e", "w">>
LUrlX == HTTPS \o <<"x", ".", "e", "x", "a", "m", "p", "l", "e", "/">>
LRecipes == <<"R", "e", "c", "i", "p", "e", "s">>
LPage2 == <<"P", "a", "g", "e", " ", "2">>
LDate == <<"1", "/", "2", "/", "2", "4">>
LTime == <<"9", ":", "4", "1">>
PairLines == {LSoup, LBeefStew, LUrlX, LRecipes, LPage2, LDate, LTime}

\* The lines of the pairer example of the design's testable properties:
\* ["Soup", "https://x.example/", "Salad", "https://y.example/a", "b"]
LSalad == <<"S", "a", "l", "a", "d">>
LUrlYa == HTTPS \o <<"y", ".", "e", "x", "a", "m", "p", "l", "e", "/", "a">>
ExLines == <<LSoup, LUrlX, LSalad, LUrlYa, <<"b">> >>

PairInputs == SeqsUpTo(PairLines, MaxLines) \cup {ExLines}

\* pairs = [], title = None, i = 0.  urlAt is a history variable: for each
\* emitted pair, the index of the line its URL block starts at.
PairsInit ==
  /\ pr \in {[lines |-> ls, i |-> 1, title |-> None, pairs |-> <<>>,
              urlAt |-> <<>>, pc |-> "loop"] : ls \in PairInputs}
  /\ dec = Idle /\ tok = Idle /\ run = Idle
  /\ res = Idle /\ seg = Idle /\ cls = Idle /\ cch = Idle

\* One iteration of `while i < len(lines)`.
PairStep ==
  /\ pr.pc = "loop"
  /\ pr.i <= Len(pr.lines)
  /\ LET r == PairIter(pr.lines, pr.i, pr.title, pr.pairs) IN
     pr' = [pr EXCEPT !.i = r.i, !.title = r.title, !.pairs = r.pairs,
                      !.urlAt = IF Len(r.pairs) > Len(pr.pairs)
                                THEN Append(pr.urlAt, pr.i) ELSE pr.urlAt]
  /\ UNCHANGED <<dec, tok, run, res, seg, cls, cch>>

\* The loop condition fails: return pairs.
PairReturn ==
  /\ pr.pc = "loop"
  /\ pr.i > Len(pr.lines)
  /\ pr' = [pr EXCEPT !.pc = "done"]
  /\ UNCHANGED <<dec, tok, run, res, seg, cls, cch>>

PairsNext == PairStep \/ PairReturn

SpecPairs == PairsInit /\ [][PairsNext]_vars

(***************************************************************************)
(* Properties of the pairer.                                               *)
(***************************************************************************)
\* A noise line of the outer loop: a footer label, a date or a time.
IsNoise(line) == IsFooterLabel(line) \/ IsDateTime(line)

\* The loop is about to examine a line.
PairAt == pr.pc = "loop" /\ pr.i <= Len(pr.lines)

\* The loop is about to open a URL block.
PairAtUrl == PairAt /\ ~IsNoise(pr.lines[pr.i]) /\ IsUrl(pr.lines[pr.i])

\* A line that goes on a URL as the claim C4 has it: not a new URL, no
\* whitespace (the space character, which is what the loop tests) and not
\* a date or time line.
ContinuesUrl(line) == ~IsUrl(line) /\ ~HasChar(line, " ") /\ ~IsDateTime(line)

\* The length of the maximal run of such lines right after line i.
RunAfter(lines, i) ==
  CHOOSE k \in 0..(Len(lines) - i) :
    /\ \A m \in 1..k : ContinuesUrl(lines[i + m])
    /\ i + k = Len(lines) \/ ~ContinuesUrl(lines[i + k + 1])

\* The lines from..to written one after the other, nothing in between.
RECURSIVE Concat(_, _, _)
Concat(lines, from, to) ==
  IF from > to THEN <<>> ELSE Concat(lines, from, to - 1) \o lines[to]

\* The rule of C4: a URL block is the URL line joined, in order and with
\* nothing in between, with the maximal run of following lines that are not
\* a new URL, hold no space and are no date/time line, and the loop goes on
\* at the line that broke the run.
UrlBlockIsMaximalRun ==
  [][PairAtUrl =>
       LET k == RunAfter(pr.lines, pr.i) IN
       /\ pr'.i = pr.i + k + 1
       /\ pr.title # None =>
            pr'.pairs = Append(pr.pairs,
                               <<pr.title, Concat(pr.lines, pr.i, pr.i + k)>>)]_vars

IsTitleLine(line) == ~IsUrl(line) /\ ~IsNoise(line)

\* C5: no orphan pairs.  Every pair has a non-empty title and a url that
\* starts with "https://"; a URL block met with no pending title emits
\* nothing; emitting clears the pending title; and between the URL blocks
\* of two pairs (and before the first) lies a title line.
C5_NoOrphanPairs ==
  /\ [](pr.pc # "idle" =>
          /\ \A k \in 1..Len(pr.pairs) :
               /\ pr.pairs[k][1] # <<>>
               /\ StartsWith(pr.pairs[k][2], HTTPS)
               /\ \E m \in ((IF k = 1 THEN 0 ELSE pr.urlAt[k - 1]) + 1)..(pr.urlAt[k] - 1) :
                    IsTitleLine(pr.lines[m]))
  /\ [][PairAtUrl =>
          /\ pr.title = None => pr'.pairs = pr.pairs
          /\ pr'.pairs # pr.pairs => pr'.title = None]_vars

\* A title and two URL blocks in a row: one pair only.
C5_Witness ==
  /\ pr.pc = "done"
  /\ pr.lines = <<LSoup, LUrlX, LUrlX>>
  /\ pr.pairs = << <<LSoup, LUrlX>> >>

\* C6: the title of every pair is the last title line (neither a URL nor a
\* noise line) before the pair's URL block.
C6_LatestTitleWins ==
  pr.pc # "idle" =>
    \A k \in 1..Len(pr.pairs) :
      LET before == {m \in 1..(pr.urlAt[k] - 1) : IsTitleLine(pr.lines[m])} IN
      /\ before # {}
      /\ pr.pairs[k][1] = pr.lines[CHOOSE m \in before : \A n \in before : n <= m]

\* Two titles in a row, then a URL: the pair has the second title.
C6_Witness ==
  /\ pr.pc = "done"
  /\ pr.lines = <<LSoup, LBeefStew, LUrlX>>
  /\ pr.pairs = << <<LBeefStew, LUrlX>> >>

C8_FooterNeverAppended ==
  [][PairAtUrl =>
       \A m \in (pr.i + 1)..(pr'.i - 1) : ~IsFooterLabel(pr.lines[m])]_vars

(***************************************************************************)
(* parse_pdf_pairs: the tokenizer.  A content stream is its decoded text;  *)
(* the three regular expressions are modelled by what re.findall does      *)
(* with them: leftmost match first, the lazy group as short as it can be,  *)
(* the search going on where the match ended.                              *)
(***************************************************************************)
\* What \s matches and str.strip removes (the ASCII ones).
WS == {" ", "\t", "\n", "\r", "\f", Chr(11)}

SetMin(S) == CHOOSE m \in S : \A n \in S : m <= n
SetMax(S) == CHOOSE m \in S : \A n \in S : n <= m

\* \s* from index k: the index of the first character it does not take.
RECURSIVE SkipWS(_, _)
SkipWS(c, k) == IF k <= Len(c) /\ c[k] \in WS THEN SkipWS(c, k + 1) ELSE k

\* \s*T<op> matches at k, op being "J" or "j".
OpAt(c, k, op) ==
  LET w == SkipWS(c, k) IN w + 1 <= Len(c) /\ c[w] = "T" /\ c[w + 1] = op

\* With the opening delimiter at p: where the closing delimiter of a match
\* can be.  `.` takes a line break only under re.DOTALL.
ShowEnds(c, p, close, op, dotall) ==
  {q \in (p + 1)..Len(c) :
     /\ c[q] = close
     /\ dotall \/ \A k \in (p + 1)..(q - 1) : c[k] # "\n"
     /\ OpAt(c, q + 1, op)}

\* re.findall(r"\[(.*?)\]\s*TJ", content, flags=re.DOTALL) with "[", "]",
\* "J", TRUE and re.findall(r"\((.*?)\)\s*Tj", content) with "(", ")", "j",
\* FALSE, from index `from` on: each match's group and where it starts.
RECURSIVE FindShows(_, _, _, _, _, _)
FindShows(c, from, open, close, op, dotall) ==
  LET starts == {p \in from..Len(c) :
                   c[p] = open /\ ShowEnds(c, p, close, op, dotall) # {}}
  IN IF starts = {} THEN <<>>
     ELSE LET p == SetMin(starts)
              q == SetMin(ShowEnds(c, p, close, op, dotall))
          IN <<[at |-> p, group |-> SubSeq(c, p + 1, q - 1)]>>
             \o FindShows(c, SkipWS(c, q + 1) + 2, open, close, op, dotall)

\* re.findall(r"\((.*?)\)", array): the groups.
RECURSIVE FindParens(_, _)
FindParens(a, from) ==
  LET ends(p) == {q \in (p + 1)..Len(a) :
                    a[q] = ")" /\ \A k \in (p + 1)..(q - 1) : a[k] # "\n"}
      starts == {p \in from..Len(a) : a[p] = "(" /\ ends(p) # {}}
  IN IF starts = {} THEN <<>>
     ELSE LET p == SetMin(starts)
              q == SetMin(ends(p))
          IN <<SubSeq(a, p + 1, q - 1)>> \o FindParens(a, q + 1)

\* "".join(decode_pdf_string(p) for p in parts)
RECURSIVE JoinDecoded(_)
JoinDecoded(parts) ==
  IF parts = <<>> THEN <<>>
  ELSE decode_pdf_string(Head(parts)) \o JoinDecoded(Tail(parts))

\* str.strip()
Strip(s) ==
  LET keep == {k \in 1..Len(s) : s[k] \notin WS} IN
  IF keep = {} THEN <<>> ELSE SubSeq(s, SetMin(keep), SetMax(keep))

\* The fragments one of the two for loops appends for the stream `content`:
\* the texts that are not blank, each with the place of its operator (the
\* stream and the index its match starts at), which the code does not keep.
RECURSIVE KeepTexts(_, _, _)
KeepTexts(matches, sn, array) ==
  IF matches = <<>> THEN <<>>
  ELSE LET m    == Head(matches)
           text == IF array THEN JoinDecoded(FindParens(m.group, 1))
                   ELSE decode_pdf_string(m.group)
       IN (IF Strip(text) # <<>>
           THEN <<[text |-> text, stream |-> sn, at |-> m.at]>> ELSE <<>>)
          \o KeepTexts(Tail(matches), sn, array)

ArrayTexts(content, sn) ==
  KeepTexts(FindShows(content, 1, "[", "]", "J", TRUE), sn, TRUE)

StringTexts(content, sn) ==
  KeepTexts(FindShows(content, 1, "(", ")", "j", FALSE), sn, FALSE)

\* text.split("\n")
RECURSIVE SplitLines(_)
SplitLines(text) ==
  LET nl == {k \in 1..Len(text) : text[k] = "\n"} IN
  IF nl = {} THEN <<text>>
  ELSE LET k == SetMin(nl) IN
       <<SubSeq(text, 1, k - 1)>> \o SplitLines(SubSeq(text, k + 1, Len(text)))

\* The trimmed, non-empty lines of one text.
RECURSIVE TrimmedLines(_)
TrimmedLines(ls) ==
  IF ls = <<>> THEN <<>>
  ELSE (IF Strip(Head(ls)) # <<>> THEN <<Strip(Head(ls))>> ELSE <<>>)
       \o TrimmedLines(Tail(ls))

\* The loop over texts building lines.
RECURSIVE LinesOf(_)
LinesOf(texts) ==
  IF texts = <<>> THEN <<>>
  ELSE TrimmedLines(SplitLines(Head(texts).text)) \o LinesOf(Tail(texts))

\* The documents the tokenizer is driven with: up to MaxOps items, each a
\* show operator on a line of its own or the end of a content stream.
OpTjA == <<"(", "A", ")", " ", "T", "j", "\n">>
OpTJB == <<"[", "(", "B", ")", "-", "2", "(", "C", ")", "]", " ", "T", "J", "\n">>
OpTjEsc == <<"(", "D", "\\", "n", "E", ")", "T", "j", "\n">>
OpTJBlank == <<"[", "(", " ", ")", "]", " ", "T", "J", "\n">>
OpTJParen == <<"[", "(", "a", "\\", ")", "b", ")", "]", " ", "T", "J", "\n">>
OpTjParen == <<"(", "c", "\\", ")", "d", ")", " ", "T", "j", "\n">>
EndStream == <<"endstream">>
TokItems == {OpTjA, OpTJB, OpTjEsc, OpTJBlank, OpTJParen, OpTjParen, EndStream}

\* The streams of a document: the text between the stream ends.
RECURSIVE StreamsOf(_, _)
StreamsOf(items, cur) ==
  IF items = <<>> THEN <<cur>>
  ELSE IF Head(items) = EndStream THEN <<cur>> \o StreamsOf(Tail(items), <<>>)
  ELSE StreamsOf(Tail(items), cur \o Head(items))

\* texts = [], before the first stream.
TokInit ==
  /\ tok \in {[streams |-> StreamsOf(d, <<>>), s |-> 1, texts |-> <<>>,
               lines |-> <<>>, pc |-> "arrays"] : d \in SeqsUpTo(TokItems, MaxOps)}
  /\ dec = Idle /\ pr = Idle /\ run = Idle
  /\ res = Idle /\ seg = Idle /\ cls = Idle /\ cch = Idle

\* The first inner for loop on stream s: the array-show (TJ) fragments.
TokArrays ==
  /\ tok.pc = "arrays"
  /\ tok.s <= Len(tok.streams)
  /\ tok' = [tok EXCEPT !.texts = @ \o ArrayTexts(tok.streams[tok.s], tok.s),
                        !.pc = "strings"]
  /\ UNCHANGED <<dec, pr, run, res, seg, cls, cch>>

\* The second inner for loop on stream s: the string-show (Tj) fragments.
TokStrings ==
  /\ tok.pc = "strings"
  /\ tok' = [tok EXCEPT !.texts = @ \o StringTexts(tok.streams[tok.s], tok.s),
                        !.s = @ + 1,
                        !.pc = "arrays"]
  /\ UNCHANGED <<dec, pr, run, res, seg, cls, cch>>

\* After the last stream: the lines handed to the pairer.
TokLines ==
  /\ tok.pc = "arrays"
  /\ tok.s > Len(tok.streams)
  /\ tok' = [tok EXCEPT !.lines = LinesOf(tok.texts), !.pc = "done"]
  /\ UNCHANGED <<dec, pr, run, res, seg, cls, cch>>

TokNext == TokArrays \/ TokStrings \/ TokLines

SpecTok == TokInit /\ [][TokNext]_vars

(***************************************************************************)
(* Properties of the tokenizer.                                            *)
(***************************************************************************)
\* C9 as claimed: the fragments of one content stream are in the order of
\* their show operators in the stream, whatever the operators' form.
C9_FragmentsInDocumentOrder ==
  tok.pc # "idle" =>
    \A a, b \in 1..Len(tok.texts) :
      a < b /\ tok.texts[a].stream = tok.texts[b].stream
        => tok.texts[a].at < tok.texts[b].at

\* Inside a literal from k on: the position of its closing parenthesis, the
\* first one no backslash escapes; 0 if there is none.
RECURSIVE LiteralEnd(_, _)
LiteralEnd(c, k) ==
  IF k > Len(c) THEN 0
  ELSE IF c[k] = "\\" THEN LiteralEnd(c, k + 2)
  ELSE IF c[k] = ")" THEN k
  ELSE LiteralEnd(c, k + 1)

\* The literals of an array from k on, each between its unescaped
\* delimiters, up to the bracket that closes the array.
RECURSIVE WholeLiterals(_, _)
WholeLiterals(c, k) ==
  IF k > Len(c) \/ c[k] = "]" THEN <<>>
  ELSE IF c[k] = "(" /\ LiteralEnd(c, k + 1) # 0
  THEN <<SubSeq(c, k + 1, LiteralEnd(c, k + 1) - 1)>> \o WholeLiterals(c, LiteralEnd(c, k + 1) + 1)
  ELSE WholeLiterals(c, k + 1)

\* The text of the show operator whose operand starts at `at`.
WholeText(c, at) ==
  IF c[at] = "[" THEN JoinDecoded(WholeLiterals(c, at + 1))
  ELSE decode_pdf_string(SubSeq(c, at + 1, LiteralEnd(c, at + 1) - 1))

\* C23: a literal holding a backslash-escaped parenthesis is extracted
\* whole: for the array-show and the string-show operator the fragment is
\* decode_pdf_string of the literals between their unescaped delimiters;
\* the array literal (a\)b) gives "a)b".
C23_EscapedParenKeptWhole ==
  tok.pc # "idle" =>
    \A n \in 1..Len(tok.texts) :
      tok.texts[n].text = WholeText(tok.streams[tok.texts[n].stream], tok.texts[n].at)

(***************************************************************************)
(* More text helpers.  A character outside ASCII is named between angle    *)
(* brackets; the model knows the few the code treats specially.            *)
(***************************************************************************)
\* s[k..] starts with sub.
HasAt(s, k, sub) == k + Len(sub) - 1 <= Len(s) /\ SubSeq(s, k, k + Len(sub) - 1) = sub

\* sub in s
Contains(s, sub) == \E k \in 1..(Len(s) - Len(sub) + 1) : HasAt(s, k, sub)

\* any(pred(k) for k in keywords), keywords a sequence
AnyOf(keywords, Pred(_)) == \E n \in 1..Len(keywords) : Pred(keywords[n])

Letters ==
  {"a", "b", "c", "d", "e", "f", "g", "h", "i", "j", "k", "l", "m", "n", "o",
   "p", "q", "r", "s", "t", "u", "v", "w", "x", "y", "z",
   "A", "B", "C", "D", "E", "F", "G", "H", "I", "J", "K", "L", "M", "N", "O",
   "P", "Q", "R", "S", "T", "U", "V", "W", "X", "Y", "Z"}

\* The characters outside ASCII of the model: a letter with an accent, a
\* ligature, an ideograph (letters to \w), and the three bullets.
EAcute == "<e-acute>"
FiLigature == "<fi>"
Ideograph == "<cjk>"
Bullet == "<bullet>"
EnDash == "<en-dash>"
EmDash == "<em-dash>"
NonAscii == {EAcute, FiLigature, Ideograph, Bullet, EnDash, EmDash}

\* \w of a str pattern
IsWordChar(c) ==
  c \in Letters \cup Digits \cup {"_", EAcute, FiLigature, Ideograph}

\* \b holds between s[k - 1] and s[k].
BoundaryAt(s, k) ==
  LET before == k - 1 >= 1 /\ k - 1 <= Len(s) /\ IsWordChar(s[k - 1])
      after  == k >= 1 /\ k <= Len(s) /\ IsWordChar(s[k])
  IN before # after

\* "sep".join(items)
RECURSIVE Join(_, _)
Join(items, sep) ==
  IF items = <<>> THEN <<>>
  ELSE IF Len(items) = 1 THEN items[1]
  ELSE items[1] \o sep \o Join(Tail(items), sep)

\* s.split(c), c one character
RECURSIVE Split(_, _)
Split(s, c) ==
  LET at == {k \in 1..Len(s) : s[k] = c} IN
  IF at = {} THEN <<s>>
  ELSE LET k == SetMin(at) IN
       <<SubSeq(s, 1, k - 1)>> \o Split(SubSeq(s, k + 1, Len(s)), c)

\* s.strip(chars)
StripChars(s, chars) ==
  LET keep == {k \in 1..Len(s) : s[k] \notin chars} IN
  IF keep = {} THEN <<>> ELSE SubSeq(s, SetMin(keep), SetMax(keep))

\* s.replace(a, b), a and b one character
ReplaceChar(s, a, b) == [k \in 1..Len(s) |-> IF s[k] = a THEN b ELSE s[k]]

(***************************************************************************)
(* The keyword lists of the segmenter.                                     *)
(***************************************************************************)
INGREDIENT_KEYWORDS ==
  <<<<"y", "o", "u", " ", "n", "e", "e", "d">>,
    <<"i", "n", "g", "r", "e", "d", "i", "e", "n", "t", "s">>,
    <<"i", "n", "g", "r", "e", "d", "i", "e", "n", "t", " ", "l", "i", "s", "t">>,
    <<"w", "h", "a", "t", " ", "y", "o", "u", " ", "n", "e", "e", "d">>,
    <<"h", "e", "r", "e", "'", "s", " ", "w", "h", "a", "t", " ", "y", "o", "u", " ", "n", "e", "e", "d">>,
    <<"y", "o", "u", " ", "w", "i", "l", "l", " ", "n", "e", "e", "d">>,
    <<"s", "h", "o", "p", "p", "i", "n", "g", " ", "l", "i", "s", "t">>,
    <<"f", "o", "r", " ", "t", "h", "e", " ", "s", "a", "l", "a", "d">>,
    <<"f", "o", "r", " ", "t", "h", "e", " ", "d", "r", "e", "s", "s", "i", "n", "g">>,
    <<"f", "o", "r", " ", "t", "h", "e", " ", "s", "a", "u", "c", "e">>,
    <<"f", "o", "r", " ", "t", "h", "e", " ", "m", "a", "r", "i", "n", "a", "d", "e">>>>

INGREDIENT_STOPWORDS ==
  <<<<"h", "o", "w">>,
    <<"m", "e", "t", "h", "o", "d">>,
    <<"i", "n", "s", "t", "r", "u", "c", "t", "i", "o", "n", "s">>,
    <<"d", "i", "r", "e", "c", "t", "i", "o", "n", "s">>,
    <<"s", "t", "e", "p", "s">>,
    <<"p", "r", "e", "p">>,
    <<"p", "r", "e", "p", "a", "r", "a", "t", "i", "o", "n">>,
    <<"m", "a", "k", "e", "s">>,
    <<"s", "e", "r", "v", "e", "s">>,
    <<"m", "a", "c", "r", "o", "s">>,
    <<"c", "a", "l", "o", "r", "i", "e", "s">>,
    <<"e", "n", "j", "o", "y">>,
    <<"n", "o", "t", "e">>,
    <<"n", "o", "t", "e", "s">>,
    <<"t", "i", "p">>,
    <<"t", "i", "p", "s">>,
    <<"s", "t", "o", "r", "a", "g", "e">>,
    <<"c", "o", "o", "k">>,
    <<"b", "a", "k", "e">>,
    <<"f", "r", "y">>,
    <<"t", "o", " ", "m", "a", "k", "e">>>>

INSTRUCTION_KEYWORDS ==
  <<<<"h", "o", "w">>,
    <<"i", "n", "s", "t", "r", "u", "c", "t", "i", "o", "n", "s">>,
    <<"m", "e", "t", "h", "o", "d">>,
    <<"d", "i", "r", "e", "c", "t", "i", "o", "n", "s">>,
    <<"s", "t", "e", "p", "s">>,
    <<"t", "o", " ", "m", "a", "k", "e">>,
    <<"p", "r", "e", "p">>,
    <<"p", "r", "e", "p", "a", "r", "a", "t", "i", "o", "n">>,
    <<"c", "o", "o", "k">>,
    <<"b", "a", "k", "e">>,
    <<"f", "i", "n", "i", "s", "h">>>>

INSTRUCTION_TERMINATORS ==
  <<<<"s", "e", "r", "v", "e", "s">>,
    <<"m", "a", "c", "r", "o", "s">>,
    <<"c", "a", "l", "o", "r", "i", "e", "s">>,
    <<"e", "n", "j", "o", "y">>,
    <<"n", "o", "t", "e", "s">>,
    <<"n", "o", "t", "e">>,
    <<"t", "a", "g">>,
    <<"s", "h", "a", "r", "e">>>>

MEASUREMENT_TOKENS ==
  <<<<"c", "u", "p">>,
    <<"c", "u", "p", "s">>,
    <<"t", "s", "p">>,
    <<"t", "e", "a", "s", "p", "o", "o", "n">>,
    <<"t", "e", "a", "s", "p", "o", "o", "n", "s">>,
    <<"t", "b", "s", "p">>,
    <<"t", "a", "b", "l", "e", "s", "p", "o", "o", "n">>,
    <<"t", "a", "b", "l", "e", "s", "p", "o", "o", "n", "s">>,
    <<"g">>,
    <<"g", "r", "a", "m">>,
    <<"g", "r", "a", "m", "s">>,
    <<"k", "g">>,
    <<"m", "l">>,
    <<"l">>,
    <<"o", "z">>,
    <<"l", "b">>,
    <<"l", "b", "s">>,
    <<"c", "l", "o", "v", "e">>,
    <<"c", "l", "o", "v", "e", "s">>,
    <<"s", "l", "i", "c", "e">>,
    <<"s", "l", "i", "c", "e", "s">>,
    <<"s", "p", "r", "i", "g">>,
    <<"s", "p", "r", "i", "g", "s">>,
    <<"b", "u", "n", "c", "h">>,
    <<"h", "a", "n", "d", "f", "u", "l">>,
    <<"p", "a", "c", "k", "e", "t">>,
    <<"p", "a", "c", "k">>,
    <<"p", "a", "c", "k", "a", "g", "e">>,
    <<"c", "a", "n">>,
    <<"t", "i", "n">>,
    <<"f", "i", "l", "l", "e", "t">>,
    <<"f", "i", "l", "l", "e", "t", "s">>,
    <<"s", "t", "i", "c", "k">>,
    <<"s", "t", "i", "c", "k", "s">>>>

\* MEASUREMENT_PATTERN.search(lower): \b(token|...)\b somewhere.
MatchesMeasurement(lower) ==
  \E k \in 1..Len(lower) :
    /\ BoundaryAt(lower, k)
    /\ AnyOf(MEASUREMENT_TOKENS,
             LAMBDA t : HasAt(lower, k, t) /\ BoundaryAt(lower, k + Len(t)))

\* re.search(r"\d", line)
HasDigit(line) == \E k \in 1..Len(line) : line[k] \in Digits

\* re.match(r"^[0-9]+[).]", line)
IsNumbered(line) ==
  \E n \in 1..Len(line) :
    AllDigits(line, 1, n) /\ n + 1 <= Len(line) /\ line[n + 1] \in {")", "."}

BulletChars == {"-", Bullet, EnDash, EmDash}

\* re.match(r"^[\-•–—]\s*(.+)$", line): a bullet and something after it.
\* A line is trimmed, so what follows the \s* is never empty.
IsBulletLine(line) == Len(line) >= 2 /\ line[1] \in BulletChars

\* bullet.group(1).strip()
BulletText(line) == Strip(SubSeq(line, SkipWS(line, 2), Len(line)))

(***************************************************************************)
(* prepare_lines and extract_ingredients_section.  Indices are those of    *)
(* the code plus one: an index of Len(lines) + 1 is the code's len(lines). *)
(***************************************************************************)
\* The loop of prepare_lines: empty lines and repeats of the last kept line
\* are dropped.
RECURSIVE DropRepeats(_, _)
DropRepeats(raw, lines) ==
  IF raw = <<>> THEN lines
  ELSE LET line == Head(raw) IN
       IF line = <<>> THEN DropRepeats(Tail(raw), lines)
       ELSE IF lines # <<>> /\ lines[Len(lines)] = line THEN DropRepeats(Tail(raw), lines)
       ELSE DropRepeats(Tail(raw), Append(lines, line))

prepare_lines(description) ==
  LET text == ReplaceChar(description, "\r", "\n")
      parts == Split(text, "\n")
      raw_lines == [k \in 1..Len(parts) |-> Strip(parts[k])]
  IN DropRepeats(raw_lines, <<>>)

\* The first loop: the index after the first line holding an ingredient
\* keyword, the first index if there is none.
IngredientStart(lines) ==
  LET hits == {k \in 1..Len(lines) :
                 AnyOf(INGREDIENT_KEYWORDS, LAMBDA kw : Contains(Lower(lines[k]), kw))}
  IN IF hits = {} THEN 1 ELSE SetMin(hits) + 1

SubheadingPrefixes ==
  <<<<"o", "p", "t", "i", "o", "n", "a", "l", " ", "t", "o", "p", "p", "i", "n", "g", "s">>,
    <<"o", "p", "t", "i", "o", "n", "a", "l", ":">>,
    <<"t", "o", "p", "p", "i", "n", "g", "s">>,
    <<"g", "a", "r", "n", "i", "s", "h">>,
    <<"f", "o", "r", " ", "t", "h", "e">>>>

\* The iteration that skips a line it cannot classify, whatever was
\* collected.
IngIterSkipsUnclassified(lines, i, ingredients) ==
  LET line  == lines[i]
      lower == Lower(line)
      stop  == [i |-> i, ingredients |-> ingredients, brk |-> TRUE]
      skip  == [i |-> i + 1, ingredients |-> ingredients, brk |-> FALSE]
      take(x) == [i |-> i + 1, ingredients |-> Append(ingredients, x), brk |-> FALSE]
  IN IF StartsWith(lower, <<"#">>) \/ StartsWith(lower, <<"h", "t", "t", "p">>)
     THEN (IF ingredients # <<>> THEN stop ELSE skip)
     ELSE IF AnyOf(INGREDIENT_STOPWORDS, LAMBDA w : StartsWith(lower, w) \/ lower = w)
     THEN (IF ingredients # <<>> THEN stop ELSE skip)
     ELSE IF IsNumbered(line) /\ ingredients # <<>> THEN stop
     ELSE IF IsBulletLine(line) THEN take(BulletText(line))
     ELSE IF AnyOf(SubheadingPrefixes, LAMBDA pre : StartsWith(lower, pre)) THEN take(line)
     ELSE IF MatchesMeasurement(lower) \/ HasDigit(line) THEN take(line)
     ELSE skip

\* One iteration of the while loop at line i: the next index, the
\* ingredients, and whether the loop was left by break.
IngIter(lines, i, ingredients) ==
  LET line  == lines[i]
      lower == Lower(line)
      stop  == [i |-> i, ingredients |-> ingredients, brk |-> TRUE]
      skip  == [i |-> i + 1, ingredients |-> ingredients, brk |-> FALSE]
      take(x) == [i |-> i + 1, ingredients |-> Append(ingredients, x), brk |-> FALSE]
  IN IF StartsWith(lower, <<"#">>) \/ StartsWith(lower, <<"h", "t", "t", "p">>)
     THEN (IF ingredients # <<>> THEN stop ELSE skip)
     ELSE IF AnyOf(INGREDIENT_STOPWORDS, LAMBDA w : StartsWith(lower, w) \/ lower = w)
     THEN (IF ingredients # <<>> THEN stop ELSE skip)
     ELSE IF IsNumbered(line) /\ ingredients # <<>> THEN stop
     ELSE IF IsBulletLine(line) THEN take(BulletText(line))
     ELSE IF AnyOf(SubheadingPrefixes, LAMBDA pre : StartsWith(lower, pre)) THEN take(line)
     ELSE IF MatchesMeasurement(lower) \/ HasDigit(line) THEN take(line)
     ELSE IF ingredients # <<>> THEN stop
     ELSE skip

RECURSIVE IngLoop(_, _, _)
IngLoop(lines, i, ingredients) ==
  IF i > Len(lines) THEN [i |-> i, ingredients |-> ingredients]
  ELSE LET r == IngIter(lines, i, ingredients) IN
       IF r.brk THEN [i |-> r.i, ingredients |-> r.ingredients]
       ELSE IngLoop(lines, r.i, r.ingredients)

\* The comma-split fallback: re.search(r"(ingredients[^:]*:)(.+)", text,
\* IGNORECASE | DOTALL), the rest of the line after the colon split on
\* commas.  [^:]* cannot pass a colon, so a match ends its first group at
\* the first colon after the word, and the leftmost word with a colon and
\* something behind it wins.
IngredientFallback(lines) ==
  LET text == Join(lines, <<"\n">>)
      low  == Lower(text)
      word == <<"i", "n", "g", "r", "e", "d", "i", "e", "n", "t", "s">>
      colon(p) == {q \in (p + Len(word))..Len(text) : text[q] = ":"}
      hits == {p \in 1..Len(text) :
                 /\ HasAt(low, p, word)
                 /\ colon(p) # {}
                 /\ SetMin(colon(p)) < Len(text)}
  IN IF hits = {} THEN <<>>
     ELSE LET q      == SetMin(colon(SetMin(hits)))
              rest   == Split(SubSeq(text, q + 1, Len(text)), "\n")[1]
              pieces == Split(rest, ",")
              tokens == [k \in 1..Len(pieces) |-> StripChars(pieces[k], {" ", ".", ";", "-"})]
          IN SelectSeq(tokens, LAMBDA t : t # <<>>)

\* (ingredients, index)
extract_ingredients_section(lines) ==
  LET start_idx == IngredientStart(lines)
      scan      == IngLoop(lines, start_idx, <<>>)
  IN IF scan.ingredients # <<>>
     THEN [ingredients |-> scan.ingredients, idx |-> scan.i]
     ELSE [ingredients |-> IngredientFallback(lines), idx |-> start_idx]

(***************************************************************************)
(* extract_steps_section and extract_recipe_content.                       *)
(***************************************************************************)
StepWord == <<"s", "t", "e", "p">>

\* A numbered line taken whole, its marker kept.
NumericTextWhole(line) == IF IsNumbered(line) THEN line ELSE None

\* re.match(r"^(?:step\s*)?(\d+)[)\.:\-]?\s*(.+)$", line, re.IGNORECASE):
\* group(2), or None if there is no match.  With from the index after the
\* optional "step" and its spaces and m the length of the run of digits
\* there: something must be left for (.+), so a line that ends with the
\* separator gives the separator, and one that ends with the digits gives
\* its last digit (when there are two digits at least).
NumericText(line) ==
  LET from == IF StartsWith(Lower(line), StepWord) THEN SkipWS(line, 5) ELSE 1
      runs == {n \in 1..(Len(line) - from + 1) : AllDigits(line, from, from + n - 1)}
  IN IF runs = {} THEN None
     ELSE LET m    == SetMax(runs)
              next == from + m
          IN IF next > Len(line)
             THEN (IF m >= 2 THEN <<line[Len(line)]>> ELSE None)
             ELSE IF line[next] \in {")", ".", ":", "-"}
             THEN (IF next = Len(line) THEN <<line[next]>>
                   ELSE SubSeq(line, SkipWS(line, next + 1), Len(line)))
             ELSE SubSeq(line, SkipWS(line, next), Len(line))

\* The iteration that takes a bullet line whether a step exists or not.
StepIterBulletAlways(lines, i, steps) ==
  LET line  == lines[i]
      lower == Lower(line)
      stop  == [i |-> i, steps |-> steps, brk |-> TRUE]
      skip  == [i |-> i + 1, steps |-> steps, brk |-> FALSE]
      take(x) == [i |-> i + 1, steps |-> Append(steps, x), brk |-> FALSE]
  IN IF StartsWith(lower, <<"#">>) \/ StartsWith(lower, <<"h", "t", "t", "p">>) THEN stop
     ELSE IF AnyOf(INSTRUCTION_TERMINATORS, LAMBDA t : Contains(lower, t)) /\ steps # <<>>
     THEN stop
     ELSE IF /\ AnyOf(INSTRUCTION_KEYWORDS, LAMBDA kw : Contains(lower, kw))
             /\ ~IsNumbered(line)
     THEN skip
     ELSE IF NumericText(line) # None THEN take(Strip(NumericText(line)))
     ELSE IF IsBulletLine(line) THEN take(BulletText(line))
     ELSE IF steps # <<>>
     THEN [i |-> i + 1,
           steps |-> [steps EXCEPT ![Len(steps)] = Strip(@ \o <<" ">> \o line)],
           brk |-> FALSE]
     ELSE skip

\* The iteration that a terminator keyword ends whether a step exists or not.
StepIterTerminatorAlways(lines, i, steps) ==
  LET line  == lines[i]
      lower == Lower(line)
      stop  == [i |-> i, steps |-> steps, brk |-> TRUE]
      skip  == [i |-> i + 1, steps |-> steps, brk |-> FALSE]
      take(x) == [i |-> i + 1, steps |-> Append(steps, x), brk |-> FALSE]
  IN IF StartsWith(lower, <<"#">>) \/ StartsWith(lower, <<"h", "t", "t", "p">>) THEN stop
     ELSE IF AnyOf(INSTRUCTION_TERMINATORS, LAMBDA t : Contains(lower, t))
     THEN stop
     ELSE IF /\ AnyOf(INSTRUCTION_KEYWORDS, LAMBDA kw : Contains(lower, kw))
             /\ ~IsNumbered(line)
     THEN skip
     ELSE IF NumericText(line) # None THEN take(Strip(NumericText(line)))
     ELSE IF IsBulletLine(line) /\ steps # <<>> THEN take(BulletText(line))
     ELSE IF steps # <<>>
     THEN [i |-> i + 1,
           steps |-> [steps EXCEPT ![Len(steps)] = Strip(@ \o <<" ">> \o line)],
           brk |-> FALSE]
     ELSE skip

\* One iteration of the while loop at line i: the next index, the steps,
\* and whether the loop was left by break.
StepIter(lines, i, steps) ==
  LET line  == lines[i]
      lower == Lower(line)
      stop  == [i |-> i, steps |-> steps, brk |-> TRUE]
      skip  == [i |-> i + 1, steps |-> steps, brk |-> FALSE]
      take(x) == [i |-> i + 1, steps |-> Append(steps, x), brk |-> FALSE]
  IN IF StartsWith(lower, <<"#">>) \/ StartsWith(lower, <<"h", "t", "t", "p">>) THEN stop
     ELSE IF AnyOf(INSTRUCTION_TERMINATORS, LAMBDA t : Contains(lower, t)) /\ steps # <<>>
     THEN stop
     ELSE IF /\ AnyOf(INSTRUCTION_KEYWORDS, LAMBDA kw : Contains(lower, kw))
             /\ ~IsNumbered(line)
     THEN skip
     ELSE IF NumericText(line) # None THEN take(Strip(NumericText(line)))
     ELSE IF IsBulletLine(line) /\ steps # <<>> THEN take(BulletText(line))
     ELSE IF steps # <<>>
     THEN [i |-> i + 1,
           steps |-> [steps EXCEPT ![Len(steps)] = Strip(@ \o <<" ">> \o line)],
           brk |-> FALSE]
     ELSE skip

RECURSIVE StepLoop(_, _, _)
StepLoop(lines, i, steps) ==
  IF i > Len(lines) THEN steps
  ELSE LET r == StepIter(lines, i, steps) IN
       IF r.brk THEN r.steps ELSE StepLoop(lines, r.i, r.steps)

extract_steps_section(lines, start_idx) == StepLoop(lines, start_idx, <<>>)

extract_recipe_content(description) ==
  LET lines == prepare_lines(description)
      found == extract_ingredients_section(lines)
  IN [ingredients |-> found.ingredients,
      steps |-> extract_steps_section(lines, found.idx)]

(***************************************************************************)
(* The classifier: keyword_in_text, infer_tags, infer_meal_types.          *)
(***************************************************************************)
\* a Python set: the order is of no consequence
MEAT_KEYWORDS ==
  <<<<"a", "n", "c", "h", "o", "v", "i", "e", "s">>,
    <<"a", "n", "c", "h", "o", "v", "y">>,
    <<"b", "a", "c", "o", "n">>,
    <<"b", "e", "e", "f">>,
    <<"c", "a", "l", "a", "m", "a", "r", "i">>,
    <<"c", "h", "i", "c", "k", "e", "n">>,
    <<"c", "l", "a", "m">>,
    <<"c", "l", "a", "m", "s">>,
    <<"c", "o", "d">>,
    <<"c", "r", "a", "b">>,
    <<"d", "u", "c", "k">>,
    <<"f", "i", "s", "h">>,
    <<"h", "a", "m">>,
    <<"l", "a", "m", "b">>,
    <<"l", "o", "b", "s", "t", "e", "r">>,
    <<"m", "u", "s", "s", "e", "l">>,
    <<"m", "u", "s", "s", "e", "l", "s">>,
    <<"m", "u", "t", "t", "o", "n">>,
    <<"o", "c", "t", "o", "p", "u", "s">>,
    <<"o", "x", "t", "a", "i", "l">>,
    <<"p", "o", "r", "k">>,
    <<"p", "r", "a", "w", "n">>,
    <<"p", "r", "a", "w", "n", "s">>,
    <<"p", "r", "o", "s", "c", "i", "u", "t", "t", "o">>,
    <<"s", "a", "l", "a", "m", "i">>,
    <<"s", "a", "l", "m", "o", "n">>,
    <<"s", "a", "u", "s", "a", "g", "e">>,
    <<"s", "e", "a", "f", "o", "o", "d">>,
    <<"s", "h", "o", "r", "t", " ", "r", "i", "b">>,
    <<"s", "h", "o", "r", "t", " ", "r", "i", "b", "s">>,
    <<"s", "h", "r", "i", "m", "p">>,
    <<"s", "q", "u", "i", "d">>,
    <<"s", "t", "e", "a", "k">>,
    <<"t", "r", "o", "u", "t">>,
    <<"t", "u", "n", "a">>,
    <<"t", "u", "r", "k", "e", "y">>,
    <<"v", "e", "a", "l">>>>

BREAKFAST_KEYWORDS ==
  <<<<"b", "r", "e", "a", "k", "f", "a", "s", "t">>,
    <<"b", "r", "u", "n", "c", "h">>,
    <<"p", "a", "n", "c", "a", "k", "e">>,
    <<"o", "a", "t">>,
    <<"g", "r", "a", "n", "o", "l", "a">>,
    <<"s", "m", "o", "o", "t", "h", "i", "e", " ", "b", "o", "w", "l">>,
    <<"o", "v", "e", "r", "n", "i", "g", "h", "t", " ", "o", "a", "t", "s">>,
    <<"t", "o", "a", "s", "t">>,
    <<"w", "a", "f", "f", "l", "e">>,
    <<"f", "r", "i", "t", "t", "a", "t", "a">>,
    <<"e", "g", "g", " ", "m", "u", "f", "f", "i", "n">>,
    <<"o", "m", "e", "l", "e", "t", "t", "e">>,
    <<"b", "a", "g", "e", "l">>>>

DESSERT_KEYWORDS ==
  <<<<"c", "a", "k", "e">>,
    <<"b", "r", "o", "w", "n", "i", "e">>,
    <<"d", "e", "s", "s", "e", "r", "t">>,
    <<"c", "o", "o", "k", "i", "e">>,
    <<"t", "a", "r", "t">>,
    <<"p", "i", "e">>,
    <<"i", "c", "e", " ", "c", "r", "e", "a", "m">>,
    <<"p", "u", "d", "d", "i", "n", "g">>,
    <<"c", "h", "e", "e", "s", "e", "c", "a", "k", "e">>,
    <<"c", "u", "p", "c", "a", "k", "e">>,
    <<"m", "o", "u", "s", "s", "e">>,
    <<"c", "u", "s", "t", "a", "r", "d">>,
    <<"s", "o", "r", "b", "e", "t">>,
    <<"l", "a", "v", "a", " ", "c", "a", "k", "e">>,
    <<"s", "w", "e", "e", "t", " ", "r", "o", "l", "l">>,
    <<"p", "a", "s", "t", "r", "y">>,
    <<"c", "r", "e", "p", "e">>,
    <<"d", "o", "n", "u", "t">>,
    <<"b", "a", "n", "a", "n", "a", " ", "b", "r", "e", "a", "d">>>>

DRINK_KEYWORDS ==
  <<<<"s", "a", "n", "g", "r", "i", "a">>,
    <<"c", "o", "c", "k", "t", "a", "i", "l">>,
    <<"m", "o", "c", "k", "t", "a", "i", "l">>,
    <<"s", "m", "o", "o", "t", "h", "i", "e">>,
    <<"l", "a", "t", "t", "e">>,
    <<"t", "e", "a">>,
    <<"l", "e", "m", "o", "n", "a", "d", "e">>,
    <<"j", "u", "i", "c", "e">>,
    <<"s", "p", "r", "i", "t", "z">>,
    <<"p", "u", "n", "c", "h">>,
    <<"m", "a", "r", "g", "a", "r", "i", "t", "a">>,
    <<"m", "o", "j", "i", "t", "o">>,
    <<"p", "a", "l", "o", "m", "a">>>>

MEAL_KEYWORDS ==
  <<[tag |-> "lunch",
     keywords |-> <<<<"l", "u", "n", "c", "h">>,
       <<"s", "n", "a", "c", "k">>,
       <<"n", "i", "b", "b", "l", "e", "s">>,
       <<"b", "i", "t", "e", "s">>>>],
    [tag |-> "dinner",
     keywords |-> <<<<"d", "i", "n", "n", "e", "r">>>>],
    [tag |-> "brunch",
     keywords |-> <<<<"b", "r", "u", "n", "c", "h">>>>]>>

COURSE_KEYWORDS ==
  <<[tag |-> "soup",
     keywords |-> <<<<"s", "o", "u", "p">>,
       <<"r", "a", "m", "e", "n">>,
       <<"p", "h", "o">>,
       <<"b", "i", "s", "q", "u", "e">>>>],
    [tag |-> "salad",
     keywords |-> <<<<"s", "a", "l", "a", "d">>>>],
    [tag |-> "pasta",
     keywords |-> <<<<"p", "a", "s", "t", "a">>,
       <<"s", "p", "a", "g", "h", "e", "t", "t", "i">>,
       <<"l", "a", "s", "a", "g", "n", "a">>,
       <<"t", "a", "g", "l", "i", "a", "t", "e", "l", "l", "e">>,
       <<"p", "e", "n", "n", "e">>,
       <<"p", "a", "p", "p", "a", "r", "d", "e", "l", "l", "e">>,
       <<"m", "a", "c">>>>],
    [tag |-> "noodles",
     keywords |-> <<<<"n", "o", "o", "d", "l", "e">>,
       <<"u", "d", "o", "n">>,
       <<"l", "o", " ", "m", "e", "i", "n">>,
       <<"p", "a", "d", " ", "t", "h", "a", "i">>,
       <<"y", "a", "k", "i", "s", "o", "b", "a">>>>],
    [tag |-> "stew",
     keywords |-> <<<<"s", "t", "e", "w">>,
       <<"b", "r", "a", "i", "s", "e">>>>],
    [tag |-> "curry",
     keywords |-> <<<<"c", "u", "r", "r", "y">>>>],
    [tag |-> "stir-fry",
     keywords |-> <<<<"s", "t", "i", "r", " ", "f", "r", "y">>,
       <<"s", "t", "i", "r", "-", "f", "r", "y">>>>],
    [tag |-> "bowl",
     keywords |-> <<<<"b", "o", "w", "l">>>>],
    [tag |-> "sandwich",
     keywords |-> <<<<"s", "a", "n", "d", "w", "i", "c", "h">>,
       <<"w", "r", "a", "p">>,
       <<"b", "u", "r", "g", "e", "r">>>>],
    [tag |-> "rice",
     keywords |-> <<<<"r", "i", "c", "e">>,
       <<"r", "i", "s", "o", "t", "t", "o">>,
       <<"p", "a", "e", "l", "l", "a">>,
       <<"p", "i", "l", "a", "f">>>>],
    [tag |-> "pizza",
     keywords |-> <<<<"p", "i", "z", "z", "a">>,
       <<"f", "l", "a", "t", "b", "r", "e", "a", "d">>>>],
    [tag |-> "tacos",
     keywords |-> <<<<"t", "a", "c", "o">>>>],
    [tag |-> "appetizer",
     keywords |-> <<<<"a", "p", "p", "e", "t", "i", "z", "e", "r">>,
       <<"s", "t", "a", "r", "t", "e", "r">>,
       <<"b", "i", "t", "e", "s">>>>]>>

\* keyword_in_text: a keyword with a space is looked for as it is, any
\* other one as a word, with or without an "s" after it.
keyword_in_text(text, keyword) ==
  IF HasChar(keyword, " ") THEN Contains(text, keyword)
  ELSE \E k \in 1..Len(text) :
         /\ HasAt(text, k, keyword)
         /\ BoundaryAt(text, k)
         /\ \/ BoundaryAt(text, k + Len(keyword))
            \/ /\ HasAt(text, k + Len(keyword), <<"s">>)
               /\ BoundaryAt(text, k + Len(keyword) + 1)

AnyKeyword(text, keywords) == AnyOf(keywords, LAMBDA kw : keyword_in_text(text, kw))

\* f"{title} {' '.join(ingredients)}".lower()
ClassifierText(title, ingredients) ==
  Lower(title \o <<" ">> \o Join(ingredients, <<" ">>))

\* The tags of the entries of a tag -> keywords table that match.
TableTags(text, table) ==
  {table[n].tag : n \in {n \in 1..Len(table) : AnyKeyword(text, table[n].keywords)}}

RoastWords ==
  <<<<"r", "o", "a", "s", "t">>, <<"s", "h", "e", "e", "t", " ", "p", "a", "n">>,
    <<"t", "r", "a", "y", " ", "b", "a", "k", "e">>, <<"r", "o", "a", "s", "t", "e", "d">>>>

GrillWords ==
  <<<<"g", "r", "i", "l", "l">>, <<"g", "r", "i", "l", "l", "e", "d">>,
    <<"b", "b", "q">>, <<"b", "a", "r", "b", "e", "c", "u", "e">>>>

\* The tag set with "vegetarian" whatever the text names.
TagSetAlwaysVegetarian(title, ingredients) ==
  TableTags(ClassifierText(title, ingredients), COURSE_KEYWORDS) \cup {"vegetarian"}

\* The set `tags` of infer_tags before it is sorted.
TagSet(title, ingredients) ==
  LET text == ClassifierText(title, ingredients) IN
    TableTags(text, MEAL_KEYWORDS)
    \cup (IF AnyKeyword(text, BREAKFAST_KEYWORDS) THEN {"breakfast"} ELSE {})
    \cup (IF AnyKeyword(text, DESSERT_KEYWORDS) THEN {"dessert"} ELSE {})
    \cup (IF AnyKeyword(text, DRINK_KEYWORDS) THEN {"drink"} ELSE {})
    \cup TableTags(text, COURSE_KEYWORDS)
    \cup (IF AnyKeyword(text, RoastWords) THEN {"roast"} ELSE {})
    \cup (IF AnyKeyword(text, GrillWords) THEN {"grill"} ELSE {})
    \cup (IF ~AnyKeyword(text, MEAT_KEYWORDS) THEN {"vegetarian"} ELSE {})
    \cup (IF keyword_in_text(text, <<"v", "e", "g", "a", "n">>) THEN {"vegan"} ELSE {})

\* Every tag and meal type the code can produce, in the order sorted() gives.
SortedNames ==
  <<"appetizer", "bowl", "breakfast", "brunch", "curry", "dessert", "dinner",
    "drink", "grill", "lunch", "noodles", "pasta", "pizza", "rice", "roast",
    "salad", "sandwich", "soup", "stew", "stir-fry", "tacos", "vegan",
    "vegetarian">>

\* sorted(names), names a set of tags or meal types
Sorted(names) == SelectSeq(SortedNames, LAMBDA n : n \in names)

infer_tags(title, ingredients) == Sorted(TagSet(title, ingredients))

\* The fallback with soup tested before salad.
MealSetSoupFirst(title, ingredients, tags) ==
  IF keyword_in_text(ClassifierText(title, ingredients), <<"s", "o", "u", "p">>)
  THEN {"dinner"}
  ELSE IF keyword_in_text(ClassifierText(title, ingredients), <<"s", "a", "l", "a", "d">>)
  THEN {"lunch"}
  ELSE {"dinner"}

\* The set `meal_types` of infer_meal_types before it is sorted.
MealSet(title, ingredients, tags) ==
  LET text == ClassifierText(title, ingredients)
      lowered_tags == {tags[n] : n \in 1..Len(tags)}
      direct ==
        (IF "breakfast" \in lowered_tags
            \/ keyword_in_text(text, <<"b", "r", "e", "a", "k", "f", "a", "s", "t">>)
         THEN {"breakfast"} ELSE {})
        \cup (IF "brunch" \in lowered_tags
                 \/ keyword_in_text(text, <<"b", "r", "u", "n", "c", "h">>)
              THEN {"brunch"} ELSE {})
        \cup (IF "dessert" \in lowered_tags
                 \/ keyword_in_text(text, <<"d", "e", "s", "s", "e", "r", "t">>)
              THEN {"dessert"} ELSE {})
        \cup TableTags(text, MEAL_KEYWORDS)
  IN IF direct # {} THEN direct
     ELSE IF "salad" \in lowered_tags \/ keyword_in_text(text, <<"s", "a", "l", "a", "d">>)
     THEN {"lunch"}
     ELSE IF "soup" \in lowered_tags \/ keyword_in_text(text, <<"s", "o", "u", "p">>)
     THEN {"dinner"}
     ELSE IF "dessert" \in lowered_tags THEN {"dessert"}
     ELSE {"dinner"}

infer_meal_types(title, ingredients, tags) == Sorted(MealSet(title, ingredients, tags))

(***************************************************************************)
(* to_ascii, extract_meta_value and normalize_instagram_url.               *)
(***************************************************************************)
\* What NFKD and the ASCII encoder leave of one character.
AsciiOf(c) ==
  CASE c = EAcute -> <<"e">>
    [] c = FiLigature -> <<"f", "i">>
    [] c \in {Ideograph, Bullet, EnDash, EmDash} -> <<>>
    [] OTHER -> <<c>>

RECURSIVE to_ascii(_)
to_ascii(text) ==
  IF text = <<>> THEN <<>>
  ELSE IF Len(text) = 1 THEN AsciiOf(text[1])
  ELSE LET half == Len(text) \div 2 IN
       to_ascii(SubSeq(text, 1, half)) \o to_ascii(SubSeq(text, half + 1, Len(text)))

\* html.unescape, an entity being one element of the text.
Unescape(text) ==
  [k \in 1..Len(text) |->
     CASE text[k] = "&amp;" -> "&" [] text[k] = "&quot;" -> "\"" [] OTHER -> text[k]]

\* An HTML document is the sequence of its tags, a meta tag having a
\* property, a content and the order of the two attributes; "" is the empty
\* sequence.  The pattern wants property before content within one tag
\* ([^>]* does not leave the tag), compares without case, and search takes
\* the first tag that matches.
extract_meta_value(html_text, property_name) ==
  LET hits == {k \in 1..Len(html_text) :
                 /\ html_text[k].name = "meta"
                 /\ html_text[k].attrs = "property-content"
                 /\ Lower(html_text[k].property) = Lower(property_name)}
  IN IF hits = {} THEN None ELSE Unescape(html_text[SetMin(hits)].content)

OgDescription ==
  <<"o", "g", ":", "d", "e", "s", "c", "r", "i", "p", "t", "i", "o", "n">>
OgImage == <<"o", "g", ":", "i", "m", "a", "g", "e">>
OgImageSecure == OgImage \o <<":", "s", "e", "c", "u", "r", "e", "_", "u", "r", "l">>
OgUrl == <<"o", "g", ":", "u", "r", "l">>

\* The url up to its query or fragment: urlunparse of the parsed url with
\* query and fragment emptied.
WithoutQuery(url) ==
  LET cut == {k \in 1..Len(url) : url[k] \in {"?", "#"}} IN
  IF cut = {} THEN url ELSE SubSeq(url, 1, SetMin(cut) - 1)

\* urlparse(url).path of an https url: what follows the host.
UrlPath(url) ==
  LET rest == WithoutQuery(url)
      from == IF StartsWith(rest, HTTPS) THEN Len(HTTPS) + 1 ELSE 1
      slash == {k \in from..Len(rest) : rest[k] = "/"}
  IN IF slash = {} THEN <<>> ELSE SubSeq(rest, SetMin(slash), Len(rest))

Instagram ==
  HTTPS \o <<"w", "w", "w", ".", "i", "n", "s", "t", "a", "g", "r", "a", "m",
             ".", "c", "o", "m", "/">>

normalize_instagram_url(url) ==
  LET segments == SelectSeq(Split(UrlPath(url), "/"), LAMBDA segment : segment # <<>>)
      reel == <<"r", "e", "e", "l">>
      at(word) == SetMin({k \in 1..Len(segments) : segments[k] = word})
      has(word) == \E k \in 1..Len(segments) : segments[k] = word
      found ==
        IF has(reel)
        THEN (IF at(reel) + 1 <= Len(segments)
              THEN <<reel, segments[at(reel) + 1]>> ELSE <<>>)
        ELSE IF has(<<"p">>)
        THEN (IF at(<<"p">>) + 1 <= Len(segments)
              THEN <<<<"p">>, segments[at(<<"p">>) + 1]>> ELSE <<>>)
        ELSE <<>>
  IN IF found # <<>> /\ found[2] # <<>>
     THEN Instagram \o found[1] \o <<"/">> \o found[2] \o <<"/">>
     ELSE WithoutQuery(url)

(***************************************************************************)
(* main: the run loop over the (title, url) pairs.  fetch_html gives None  *)
(* when curl fails, the page otherwise; each pair carries what its fetch   *)
(* gives.                                                                  *)
(***************************************************************************)
PreviewLimit == 280

\* str.splitlines(): the line breaks are \n, \r, \r\n, \v and \f, and a
\* break at the very end opens no further line.
LineBreaks == {"\n", "\r", "\f", Chr(11)}

RECURSIVE splitlines(_)
splitlines(text) ==
  LET at == {k \in 1..Len(text) : text[k] \in LineBreaks} IN
  IF text = <<>> THEN <<>>
  ELSE IF at = {} THEN <<text>>
  ELSE LET k == SetMin(at)
           n == IF text[k] = "\r" /\ k + 1 <= Len(text) /\ text[k + 1] = "\n"
                THEN 2 ELSE 1
       IN <<SubSeq(text, 1, k - 1)>> \o splitlines(SubSeq(text, k + n, Len(text)))

\* s[:n]
Prefix(s, n) == SubSeq(s, 1, IF Len(s) < n THEN Len(s) ELSE n)

\* `if not html_text` fails: None and the empty page are both falsy.
Fetched(html_text) == html_text # None

DescriptionOf(html_text) == extract_meta_value(html_text, OgDescription)

\* extract_meta_value(og:image) or extract_meta_value(og:image:secure_url)
ImageOf(html_text) ==
  IF extract_meta_value(html_text, OgImage) # None
  THEN extract_meta_value(html_text, OgImage)
  ELSE extract_meta_value(html_text, OgImageSecure)

NoFailure == "none"

\* The tests of the loop body with the image tested before the description.
FailureReasonImageFirst(html_text) ==
  IF ~Fetched(html_text) THEN "fetch_failed"
  ELSE IF ImageOf(html_text) = None THEN "no_image"
  ELSE IF DescriptionOf(html_text) = None THEN "no_description"
  ELSE NoFailure

\* The reason the item fails with, tested in the order of the loop body.
FailureReason(html_text) ==
  IF ~Fetched(html_text) THEN "fetch_failed"
  ELSE IF DescriptionOf(html_text) = None THEN "no_description"
  ELSE IF ImageOf(html_text) = None THEN "no_image"
  ELSE NoFailure

Advisory ==
  <<"I", "n", "g", "r", "e", "d", "i", "e", "n", "t", "s", " ", "n", "o", "t", " ",
    "d", "e", "t", "e", "c", "t", "e", "d", " ", "a", "u", "t", "o", "m", "a", "t",
    "i", "c", "a", "l", "l", "y", ".">>

\* to_ascii(" ".join(description.splitlines()[:4]))[:280]
DescriptionPreview(description) ==
  Prefix(to_ascii(Join(Prefix(splitlines(description), 4), <<" ">>)), PreviewLimit)

\* [to_ascii(item) for item in items]
AsciiAll(items) == [k \in 1..Len(items) |-> to_ascii(items[k])]

\* The entry of an item that did not fail: the keys steps, tags, mealTypes,
\* notes and descriptionPreview are there only under their conditions.
Entry(ascii_title, ascii_source, ascii_image, ascii_ingredients, ascii_steps, ascii_tags, ascii_meal_types, preview) ==
  [k \in {"title", "sourceUrl", "imageUrl", "ingredients"}
         \cup (IF ascii_steps # <<>> THEN {"steps"} ELSE {})
         \cup (IF ascii_tags # <<>> THEN {"tags"} ELSE {})
         \cup (IF ascii_meal_types # <<>> THEN {"mealTypes"} ELSE {})
         \cup (IF ascii_ingredients = <<>> THEN {"notes", "descriptionPreview"} ELSE {})
     |-> CASE k = "title" -> ascii_title
           [] k = "sourceUrl" -> ascii_source
           [] k = "imageUrl" -> ascii_image
           [] k = "ingredients" -> ascii_ingredients
           [] k = "steps" -> ascii_steps
           [] k = "tags" -> ascii_tags
           [] k = "mealTypes" -> ascii_meal_types
           [] k = "notes" -> Advisory
           [] k = "descriptionPreview" -> preview]

\* extract_meta_value(html_text, "og:url") or url
SourceOf(og_url, url) == IF og_url # None THEN og_url ELSE url

\* The entry once the tags are inferred (the tags are names in ASCII, which
\* to_ascii leaves as they are).
Classified(title, url, html_text, description, ingredients, steps, inferred_tags) ==
  Entry(to_ascii(title),
        to_ascii(normalize_instagram_url(SourceOf(extract_meta_value(html_text, OgUrl), url))),
        to_ascii(ImageOf(html_text)),
        AsciiAll(ingredients),
        AsciiAll(steps),
        inferred_tags,
        infer_meal_types(title, ingredients, inferred_tags),
        DescriptionPreview(description))

\* The entry once the description is segmented.
Extracted(title, url, html_text, description, content) ==
  Classified(title, url, html_text, description, content.ingredients, content.steps,
             infer_tags(title, content.ingredients))

Described(title, url, html_text, description) ==
  Extracted(title, url, html_text, description, extract_recipe_content(description))

BuildEntry(title, url, html_text) ==
  Described(title, url, html_text, DescriptionOf(html_text))

\* The record put in front of its list.
FiledInFront(item, results, failures, reason) ==
  IF reason # NoFailure
  THEN [results  |-> results,
        failures |-> <<[title |-> item.title, url |-> item.url, reason |-> reason]>>
                     \o failures]
  ELSE [results  |-> <<BuildEntry(item.title, item.url, item.page)>> \o results,
        failures |-> failures]

\* Where the reason leads: a failure record, or the entry.
Filed(item, results, failures, reason) ==
  IF reason # NoFailure
  THEN [results  |-> results,
        failures |-> Append(failures,
                            [title |-> item.title, url |-> item.url, reason |-> reason])]
  ELSE [results  |-> Append(results, BuildEntry(item.title, item.url, item.page)),
        failures |-> failures]

\* The body of the for loop for one pair: the two lists after it.
RunIterDropsNoImage(item, results, failures) ==
  IF FailureReason(item.page) = "no_image"
  THEN [results |-> results, failures |-> failures]
  ELSE Filed(item, results, failures, FailureReason(item.page))

RunIter(item, results, failures) ==
  Filed(item, results, failures, FailureReason(item.page))

\* Titles, urls and descriptions of a run.
TitleStew ==
  <<"B", "e", "e", "f", " ", "S", "t", "e", "w">>

TitleCafe ==
  <<"C", "a", "f", EAcute>>

UrlPlain ==
  <<"h", "t", "t", "p", "s", ":", "/", "/", "x", ".", "e", "x", "a", "m",
    "p", "l", "e", "/", "a", "?", "b">>

UrlReel ==
  <<"h", "t", "t", "p", "s", ":", "/", "/", "w", "w", "w", ".", "i", "n",
    "s", "t", "a", "g", "r", "a", "m", ".", "c", "o", "m", "/", "r", "e",
    "e", "l", "/", "Z", "/", "?", "x", "=", "1">>

UrlCanonical ==
  <<"h", "t", "t", "p", "s", ":", "/", "/", "i", "n", "s", "t", "a", "g",
    "r", "a", "m", ".", "c", "o", "m", "/", "p", "/", "Q">>

UrlImage ==
  <<"h", "t", "t", "p", "s", ":", "/", "/", "i", ".", "e", "x", "a", "m",
    "p", "l", "e", "/", "s", ".", "j", "p", "g">>

DescRecipe ==
  <<"I", "n", "g", "r", "e", "d", "i", "e", "n", "t", "s", ":", "\n", "1",
    " ", "c", "u", "p", " ", "r", "i", "c", "e", "\n", "2", " ", "e", "g",
    "g", "s", "\n", "I", "n", "s", "t", "r", "u", "c", "t", "i", "o", "n",
    "s", ":", "\n", "C", "o", "o", "k", " ", "r", "i", "c", "e", ".", "\n",
    "F", "r", "y", " ", "e", "g", "g", "s", ".">>

DescPlain ==
  <<"Y", "u", "m", " ", "&amp;", "\n", "S", "o", " ", "g", "o", "o", "d">>

DescIdeographs ==
  <<Ideograph, Ideograph>>

DescNewline ==
  <<"\n">>

DescBlankLines ==
  <<"\n", "\n", "\n", "\n", "\n", "y", "u", "m">>

\* A description of one line, one character longer than the preview.
DescLong == [k \in 1..(PreviewLimit + 1) |-> "a"]

Tag(name) == [name |-> name, attrs |-> "", property |-> <<>>, content |-> <<>>]

Meta(property, content) ==
  [name |-> "meta", attrs |-> "property-content", property |-> property,
   content |-> content]

\* <meta content="..." property="...">
MetaContentFirst(property, content) ==
  [name |-> "meta", attrs |-> "content-property", property |-> property,
   content |-> content]

OgDescriptionUpper ==
  <<"O", "G", ":", "D", "e", "s", "c", "r", "i", "p", "t", "i", "o", "n">>

\* A page with the description and an og:image.
PageWith(description) ==
  <<Tag("title"), Meta(OgDescription, description), Meta(OgImage, UrlImage)>>

\* What curl leaves: its return code and its standard output.
CurlResults ==
  {[returncode |-> 6, stdout |-> <<>>],
   [returncode |-> 0, stdout |-> <<>>],
   [returncode |-> 0, stdout |-> <<Tag("title")>>],
   [returncode |-> 0, stdout |-> <<Meta(OgImage, UrlImage)>>],
   [returncode |-> 0, stdout |-> <<Meta(OgDescription, <<>>), Meta(OgImage, UrlImage)>>],
   [returncode |-> 0,
    stdout |-> <<MetaContentFirst(OgDescription, DescPlain), Meta(OgImage, UrlImage)>>],
   [returncode |-> 0, stdout |-> <<Meta(OgDescription, DescPlain)>>],
   [returncode |-> 0,
    stdout |-> <<Meta(OgDescription, DescPlain), Meta(OgImage, <<>>)>>],
   [returncode |-> 0,
    stdout |-> <<Meta(OgDescriptionUpper, DescRecipe), Meta(OgImageSecure, UrlImage),
                 Meta(OgUrl, UrlCanonical)>>],
   [returncode |-> 0, stdout |-> PageWith(DescPlain)],
   [returncode |-> 0, stdout |-> PageWith(DescIdeographs)],
   [returncode |-> 0, stdout |-> PageWith(DescNewline)],
   [returncode |-> 0, stdout |-> PageWith(DescBlankLines)],
   [returncode |-> 0, stdout |-> PageWith(DescLong)]}

\* fetch_html: None when curl fails, what it printed otherwise.
fetch_html(curl) == IF curl.returncode # 0 THEN None ELSE curl.stdout

RunPairs == <<[title |-> TitleStew, url |-> UrlPlain], [title |-> TitleCafe, url |-> UrlReel]>>

\* What parse_pdf_pairs gave: the two pairs in turn, from either of them.
RunInputs ==
  {[k \in 1..n |-> RunPairs[((k + first) % 2) + 1]] : n \in 1..MaxItems, first \in 0..1}

\* results = [], failures = [], before the first pair.  fetched and log are
\* history variables: what each fetch gave, and what each item ended as.
RunInit ==
  /\ run \in {[pairs |-> ps, idx |-> 1, results |-> <<>>, failures |-> <<>>,
               fetched |-> <<>>, log |-> <<>>, payload |-> None,
               failure_payload |-> None, pc |-> "loop"] : ps \in RunInputs}
  /\ dec = Idle /\ tok = Idle /\ pr = Idle
  /\ res = Idle /\ seg = Idle /\ cls = Idle /\ cch = Idle

\* What the item ended as, for the log.
Outcome(before, after) ==
  IF Len(after.failures) > Len(before.failures)
  THEN after.failures[Len(after.failures)].reason
  ELSE IF Len(after.results) > Len(before.results) THEN "record" ELSE "dropped"

Stepped(before, curl, after) ==
  [before EXCEPT !.idx = before.idx + 1,
                 !.results = after.results,
                 !.failures = after.failures,
                 !.fetched = Append(before.fetched, curl),
                 !.log = Append(before.log, Outcome(before, after))]

\* One iteration of `for idx, (title, url) in enumerate(pairs, start=1)`.
RunStep ==
  /\ run.pc = "loop"
  /\ run.idx <= Len(run.pairs)
  /\ \E curl \in CurlResults :
       run' = Stepped(run, curl,
                      RunIter([title |-> run.pairs[run.idx].title,
                               url |-> run.pairs[run.idx].url,
                               page |-> fetch_html(curl)],
                              run.results, run.failures))
  /\ UNCHANGED <<dec, pr, tok, res, seg, cls, cch>>

Count(items, Pred(_)) == Cardinality({k \in 1..Len(items) : Pred(items[k])})

HasKey(entry, key) == key \in DOMAIN entry /\ entry[key] # <<>>

\* After the loop: the payload, and the failures file if there are failures.
RunWrite ==
  /\ run.pc = "loop"
  /\ run.idx > Len(run.pairs)
  /\ run' = [run EXCEPT
               !.pc = "done",
               !.payload =
                 [totalRecipesDetected |-> Len(run.results),
                  totalRecipesInPdf |-> Len(run.pairs),
                  recipesWithMissingIngredients |->
                    Count(run.results, LAMBDA e : e.ingredients = <<>>),
                  recipesWithMissingSteps |->
                    Count(run.results, LAMBDA e : ~HasKey(e, "steps")),
                  recipesWithTags |-> Count(run.results, LAMBDA e : HasKey(e, "tags")),
                  recipesWithMealTypes |->
                    Count(run.results, LAMBDA e : HasKey(e, "mealTypes")),
                  recipes |-> run.results],
               !.failure_payload =
                 IF run.failures # <<>>
                 THEN [totalFailures |-> Len(run.failures), failures |-> run.failures]
                 ELSE None]
  /\ UNCHANGED <<dec, pr, tok, res, seg, cls, cch>>

RunNext == RunStep \/ RunWrite

SpecRun == RunInit /\ [][RunNext]_vars

(***************************************************************************)
(* Properties of the run loop.                                             *)
(***************************************************************************)
Running == run.pc # "idle"

\* The step appended exactly one element to `after` and nothing else.
GrewByOne(before, after) ==
  Len(after) = Len(before) + 1 /\ SubSeq(after, 1, Len(before)) = before

\* C1: after any number of items, the records and the failures together
\* number the items processed so far, each iteration adding exactly one
\* record or exactly one failure; when the loop is over they number the
\* (title, url) pairs, and the payload counts all the pairs.
C1_EveryItemCounted ==
  /\ [](Running =>
          /\ Len(run.results) + Len(run.failures) = run.idx - 1
          /\ run.idx <= Len(run.pairs) + 1
          /\ (run.pc = "done" =>
                /\ Len(run.results) + Len(run.failures) = Len(run.pairs)
                /\ run.payload.totalRecipesInPdf = Len(run.pairs)
                /\ run.payload.totalRecipesDetected = Len(run.results)))
  /\ [][(Running /\ run'.idx # run.idx) =>
          /\ run'.idx = run.idx + 1
          /\ \/ GrewByOne(run.results, run'.results) /\ run'.failures = run.failures
             \/ GrewByOne(run.failures, run'.failures) /\ run'.results = run.results]_vars

\* A finished run of two or more pairs with a record and a failure.
C1_Witness ==
  /\ Running
  /\ run.pc = "done"
  /\ Len(run.pairs) >= 2
  /\ run.results # <<>>
  /\ run.failures # <<>>

\* C2: every emitted record whose ingredients list is empty has a notes
\* field and a descriptionPreview field, both non-empty, and the preview
\* has at most 280 characters.
C2_DegradedRecordPopulated ==
  Running =>
    \A k \in 1..Len(run.results) :
      LET entry == run.results[k] IN
      entry.ingredients = <<>> =>
        /\ "notes" \in DOMAIN entry
        /\ entry.notes # <<>>
        /\ "descriptionPreview" \in DOMAIN entry
        /\ entry.descriptionPreview # <<>>
        /\ Len(entry.descriptionPreview) <= PreviewLimit

\* What the fetch of an item gave, in the claim's terms.
FetchFailed(curl) == curl.returncode # 0 \/ curl.stdout = <<>>

DescriptionMissing(curl) ==
  \A k \in 1..Len(curl.stdout) :
    LET tag == curl.stdout[k] IN
    ~(/\ tag.name = "meta"
      /\ tag.attrs = "property-content"
      /\ Lower(tag.property) = OgDescription
      /\ (\A j \in 1..(k - 1) :
            ~(/\ curl.stdout[j].name = "meta"
              /\ curl.stdout[j].attrs = "property-content"
              /\ Lower(curl.stdout[j].property) = OgDescription))
      /\ tag.content # <<>>)

ImageMissing(curl) ==
  /\ extract_meta_value(curl.stdout, OgImage) = <<>>
  /\ extract_meta_value(curl.stdout, OgImageSecure) = <<>>

\* C3: the reason of a failure is decided in the order fetch, description,
\* image; an item gets a record exactly when all three succeeded; and a
\* failing item is followed by the next item, the loop ending only after
\* the last pair.
C3_FailureReasonInOrder ==
  /\ [](Running =>
          /\ Len(run.log) = run.idx - 1
          /\ (run.pc = "done" => Len(run.log) = Len(run.pairs))
          /\ \A k \in 1..Len(run.log) :
               LET curl == run.fetched[k] IN
               /\ run.log[k] \in {"fetch_failed", "no_description", "no_image", "record"}
               /\ FetchFailed(curl) => run.log[k] = "fetch_failed"
               /\ (~FetchFailed(curl) /\ DescriptionMissing(curl)) =>
                    run.log[k] = "no_description"
               /\ (~FetchFailed(curl) /\ ~DescriptionMissing(curl) /\ ImageMissing(curl)) =>
                    run.log[k] = "no_image"
               /\ run.log[k] = "record" <=>
                    (~FetchFailed(curl) /\ ~DescriptionMissing(curl) /\ ~ImageMissing(curl)))
  /\ [][(Running /\ run.pc = "loop" /\ run.idx <= Len(run.pairs)) =>
          /\ run'.pc = "loop"
          /\ run'.idx = run.idx + 1
          /\ (Len(run'.failures) > Len(run.failures) =>
                LET failure == run'.failures[Len(run'.failures)] IN
                /\ failure.title = run.pairs[run.idx].title
                /\ failure.url = run.pairs[run.idx].url)]_vars

\* A page with neither description nor image fails with no_description,
\* and the pair after it gets its record.
C3_Witness ==
  /\ Running
  /\ run.pc = "done"
  /\ run.log = <<"no_description", "record">>
  /\ run.fetched[1] = [returncode |-> 0, stdout |-> <<Tag("title")>>]
  /\ Len(run.results) = 1

(***************************************************************************)
(* cache_source_preview_images.py: the meta-tag resolver,                  *)
(* _extract_preview_from_html.  A document is the sequence of its pieces:  *)
(* a meta or link tag with its attributes in the order they are written,   *)
(* or a stretch of other text of a given length.                           *)
(***************************************************************************)
SnippetLimit == 200000

META_CANDIDATES ==
  <<[attr |-> <<"p", "r", "o", "p", "e", "r", "t", "y">>, value |-> <<"o", "g", ":", "i", "m", "a", "g", "e", ":", "s", "e", "c", "u", "r", "e", "_", "u", "r", "l">>],
    [attr |-> <<"p", "r", "o", "p", "e", "r", "t", "y">>, value |-> <<"o", "g", ":", "i", "m", "a", "g", "e", ":", "u", "r", "l">>],
    [attr |-> <<"p", "r", "o", "p", "e", "r", "t", "y">>, value |-> <<"o", "g", ":", "i", "m", "a", "g", "e">>],
    [attr |-> <<"n", "a", "m", "e">>, value |-> <<"o", "g", ":", "i", "m", "a", "g", "e">>],
    [attr |-> <<"p", "r", "o", "p", "e", "r", "t", "y">>, value |-> <<"t", "w", "i", "t", "t", "e", "r", ":", "i", "m", "a", "g", "e">>],
    [attr |-> <<"n", "a", "m", "e">>, value |-> <<"t", "w", "i", "t", "t", "e", "r", ":", "i", "m", "a", "g", "e">>],
    [attr |-> <<"p", "r", "o", "p", "e", "r", "t", "y">>, value |-> <<"t", "w", "i", "t", "t", "e", "r", ":", "i", "m", "a", "g", "e", ":", "s", "r", "c">>],
    [attr |-> <<"n", "a", "m", "e">>, value |-> <<"t", "w", "i", "t", "t", "e", "r", ":", "i", "m", "a", "g", "e", ":", "s", "r", "c">>],
    [attr |-> <<"i", "t", "e", "m", "p", "r", "o", "p">>, value |-> <<"i", "m", "a", "g", "e">>],
    [attr |-> <<"n", "a", "m", "e">>, value |-> <<"t", "h", "u", "m", "b", "n", "a", "i", "l">>]>>

Attr(name, value) == [name |-> name, value |-> value]

Element(kind, attrs) == [kind |-> kind, attrs |-> attrs, len |-> 0]

OtherText(len) == [kind |-> "text", attrs |-> <<>>, len |-> len]

RECURSIVE AttrsSize(_)
AttrsSize(attrs) ==
  IF attrs = <<>> THEN 0
  ELSE Len(Head(attrs).name) + Len(Head(attrs).value) + 4 + AttrsSize(Tail(attrs))

\* The characters a piece takes: <meta a="v" b="w"> or the text.
Size(piece) ==
  IF piece.kind = "text" THEN piece.len ELSE 6 + AttrsSize(piece.attrs)

RECURSIVE Offset(_, _)
\* The number of characters before piece k.
Offset(html_text, k) ==
  IF k = 1 THEN 0 ELSE Offset(html_text, k - 1) + Size(html_text[k - 1])

\* snippet = html_text[:200_000]: a tag cut by the limit has lost its '>'
\* and matches no pattern, so the snippet is the pieces that end within the
\* limit.
Snippet(html_text) ==
  SelectSeq([k \in 1..Len(html_text) |->
               IF Offset(html_text, k) + Size(html_text[k]) <= SnippetLimit
               THEN html_text[k] ELSE OtherText(0)],
            LAMBDA piece : piece.kind # "text" \/ piece.len > 0)

EndsWith(s, suffix) ==
  Len(s) >= Len(suffix) /\ SubSeq(s, Len(s) - Len(suffix) + 1, Len(s)) = suffix

\* An attribute written name="value", the name ending with attr: the
\* patterns compare without case and do not anchor the name.
HasAttr(piece, attr, value) ==
  \E a \in 1..Len(piece.attrs) :
    /\ EndsWith(Lower(piece.attrs[a].name), attr)
    /\ Lower(piece.attrs[a].value) = Lower(value)

\* The value of the first attribute whose name ends with attr, stripped and
\* unescaped; None when there is none.
AttrValue(piece, attr) ==
  IF \E a \in 1..Len(piece.attrs) : EndsWith(Lower(piece.attrs[a].name), attr)
  THEN Unescape(Strip(piece.attrs[
         SetMin({a \in 1..Len(piece.attrs) : EndsWith(Lower(piece.attrs[a].name), attr)})
       ].value))
  ELSE None

\* _meta_regex(attr, value).search(snippet): the first meta tag with the
\* attribute, 0 when there is none.
MetaSearchLast(snippet, candidate) ==
  IF \E k \in 1..Len(snippet) :
       snippet[k].kind = "meta" /\ HasAttr(snippet[k], candidate.attr, candidate.value)
  THEN SetMax({k \in 1..Len(snippet) :
                 snippet[k].kind = "meta"
                 /\ HasAttr(snippet[k], candidate.attr, candidate.value)})
  ELSE 0

MetaSearch(snippet, candidate) ==
  IF \E k \in 1..Len(snippet) :
       snippet[k].kind = "meta" /\ HasAttr(snippet[k], candidate.attr, candidate.value)
  THEN SetMin({k \in 1..Len(snippet) :
                 snippet[k].kind = "meta"
                 /\ HasAttr(snippet[k], candidate.attr, candidate.value)})
  ELSE 0

\* _extract_content(tag)
extract_content(tag) == AttrValue(tag, <<"c", "o", "n", "t", "e", "n", "t">>)

SchemeMark == <<":", "/", "/">>

\* The scheme and host of an absolute url.
Origin(url) ==
  SubSeq(url, 1,
         SetMin({k \in 1..(Len(url) + 1) :
                   /\ k > Len(<<"h", "t", "t", "p", "s", ":", "/", "/">>)
                   /\ (k = Len(url) + 1 \/ url[k] = "/")}) - 1)

\* The url up to and including the last '/' of its path.
Directory(url) ==
  IF \E k \in (Len(Origin(url)) + 1)..Len(url) : url[k] = "/"
  THEN SubSeq(url, 1, SetMax({k \in 1..Len(url) : url[k] = "/"}))
  ELSE Origin(url) \o <<"/">>

\* urljoin(base, ref) for a reference that is empty, absolute, rooted at
\* '/' or relative to the directory of base.
urljoin(base, ref) ==
  IF ref = <<>> THEN base
  ELSE IF Contains(ref, SchemeMark) THEN ref
  ELSE IF Head(ref) = "/" THEN Origin(base) \o ref
  ELSE Directory(base) \o ref

RelNames == {<<"i", "m", "a", "g", "e", "_", "s", "r", "c">>, <<"t", "h", "u", "m", "b", "n", "a", "i", "l">>}

\* The link fallback: the first link tag with rel image_src or thumbnail,
\* and its href if it has one.
LinkSearch(snippet) ==
  IF \E k \in 1..Len(snippet) :
       snippet[k].kind = "link"
       /\ \E rel \in RelNames : HasAttr(snippet[k], <<"r", "e", "l">>, rel)
  THEN SetMin({k \in 1..Len(snippet) :
                 snippet[k].kind = "link"
                 /\ \E rel \in RelNames : HasAttr(snippet[k], <<"r", "e", "l">>, rel)})
  ELSE 0

HasHref(tag) == \E a \in 1..Len(tag.attrs) : EndsWith(Lower(tag.attrs[a].name), <<"h", "r", "e", "f">>)

LinkFallback(snippet, base_url, at) ==
  IF at = 0 THEN None
  ELSE IF HasHref(snippet[at])
  THEN urljoin(base_url, AttrValue(snippet[at], <<"h", "r", "e", "f">>))
  ELSE None

\* One iteration of `for attr, value in META_CANDIDATES`, the match being
\* at piece `at` (0: no match): whether it returns, and what.
Judged(snippet, base_url, at) ==
  IF at # 0 /\ extract_content(snippet[at]) # None
  THEN [returns |-> TRUE, value |-> urljoin(base_url, extract_content(snippet[at]))]
  ELSE [returns |-> FALSE, value |-> None]

MetaIter(snippet, base_url, c) ==
  Judged(snippet, base_url, MetaSearch(snippet, META_CANDIDATES[c]))

RECURSIVE MetaLoop(_, _, _)
MetaLoop(snippet, base_url, c) ==
  IF c > Len(META_CANDIDATES)
  THEN LinkFallback(snippet, base_url, LinkSearch(snippet))
  ELSE IF MetaIter(snippet, base_url, c).returns
  THEN MetaIter(snippet, base_url, c).value
  ELSE MetaLoop(snippet, base_url, c + 1)

extract_preview_from_html(html_text, base_url) ==
  MetaLoop(Snippet(html_text), base_url, 1)

\* The documents the resolver is driven from.
BaseUrl == <<"h", "t", "t", "p", "s", ":", "/", "/", "x", ".", "e", "x", "a", "m", "p", "l", "e", "/", "r", "/", "1">>
OgJpg == <<"h", "t", "t", "p", "s", ":", "/", "/", "i", ".", "e", "x", "a", "m", "p", "l", "e", "/", "o", "g", ".", "j", "p", "g">>
TwJpg == <<"h", "t", "t", "p", "s", ":", "/", "/", "i", ".", "e", "x", "a", "m", "p", "l", "e", "/", "t", "w", ".", "j", "p", "g">>

ResPieces ==
  {Element("meta", <<Attr(<<"p", "r", "o", "p", "e", "r", "t", "y">>, <<"o", "g", ":", "i", "m", "a", "g", "e">>), Attr(<<"c", "o", "n", "t", "e", "n", "t">>, OgJpg)>>),
   Element("meta", <<Attr(<<"p", "r", "o", "p", "e", "r", "t", "y">>, <<"o", "g", ":", "i", "m", "a", "g", "e">>), Attr(<<"c", "o", "n", "t", "e", "n", "t">>, <<" ">>)>>),
   Element("meta", <<Attr(<<"P", "R", "O", "P", "E", "R", "T", "Y">>, <<"O", "G", ":", "I", "m", "a", "g", "e">>)>>),
   Element("meta", <<Attr(<<"c", "o", "n", "t", "e", "n", "t">>, TwJpg), Attr(<<"n", "a", "m", "e">>, <<"t", "w", "i", "t", "t", "e", "r", ":", "i", "m", "a", "g", "e">>)>>),
   Element("meta", <<Attr(<<"p", "r", "o", "p", "e", "r", "t", "y">>, <<"o", "g", ":", "i", "m", "a", "g", "e", ":", "s", "e", "c", "u", "r", "e", "_", "u", "r", "l">>),
                     Attr(<<"c", "o", "n", "t", "e", "n", "t">>, <<"/", "s", "&amp;", "t">>)>>),
   Element("link", <<Attr(<<"r", "e", "l">>, <<"i", "m", "a", "g", "e", "_", "s", "r", "c">>), Attr(<<"h", "r", "e", "f">>, <<"l", ".", "p", "n", "g">>)>>),
   Element("link", <<Attr(<<"r", "e", "l">>, <<"t", "h", "u", "m", "b", "n", "a", "i", "l">>)>>),
   OtherText(SnippetLimit)}

MaxPieces == 3

ResInputs == SeqsUpTo(ResPieces, MaxPieces)

\* snippet = html_text[:200_000], before the first candidate.
ResInit ==
  /\ res \in {[html_text |-> h, base_url |-> BaseUrl, snippet |-> Snippet(h), c |-> 1,
               result |-> None, pc |-> "meta"] : h \in ResInputs}
  /\ dec = Idle /\ pr = Idle /\ tok = Idle /\ run = Idle
  /\ seg = Idle /\ cls = Idle /\ cch = Idle

Returned(before, value) == [before EXCEPT !.result = value, !.pc = "done"]

\* One candidate of the for loop: return its content, or go on to the next.
ResCandidate ==
  /\ res.pc = "meta"
  /\ res.c <= Len(META_CANDIDATES)
  /\ res' = IF MetaIter(res.snippet, res.base_url, res.c).returns
            THEN Returned(res, MetaIter(res.snippet, res.base_url, res.c).value)
            ELSE [res EXCEPT !.c = res.c + 1]
  /\ UNCHANGED <<dec, pr, tok, run, seg, cls, cch>>

\* After the last candidate: the link fallback, or None.
ResLink ==
  /\ res.pc = "meta"
  /\ res.c > Len(META_CANDIDATES)
  /\ res' = Returned(res, LinkFallback(res.snippet, res.base_url, LinkSearch(res.snippet)))
  /\ UNCHANGED <<dec, pr, tok, run, seg, cls, cch>>

ResNext == ResCandidate \/ ResLink

SpecResolve == ResInit /\ [][ResNext]_vars

(***************************************************************************)
(* Properties of the resolver.                                             *)
(***************************************************************************)
Resolving == res.pc # "idle"

\* The pieces of the document, or those within the first 200,000 characters.
WholeDocument == {k \in 1..Len(res.html_text) : TRUE}

WithinLimit ==
  {k \in 1..Len(res.html_text) :
     Offset(res.html_text, k) + Size(res.html_text[k]) <= SnippetLimit}

\* Piece k is a meta tag of candidate c.
IsTagOf(k, c) ==
  /\ res.html_text[k].kind = "meta"
  /\ HasAttr(res.html_text[k], META_CANDIDATES[c].attr, META_CANDIDATES[c].value)

\* The content of piece k as the result gives it.
ContentOf(k) == extract_content(res.html_text[k])

Resolved(k) == urljoin(res.base_url, ContentOf(k))

\* Candidate c yields piece k, any of its tags in `scope` counting.
YieldsAny(scope, c, k) == k \in scope /\ IsTagOf(k, c) /\ ContentOf(k) # None

\* Candidate c yields piece k, only its first tag in `scope` counting.
YieldsFirst(scope, c, k) ==
  /\ YieldsAny(scope, c, k)
  /\ \A j \in scope : IsTagOf(j, c) => k <= j

IsImageLink(k) ==
  /\ res.html_text[k].kind = "link"
  /\ \E rel \in RelNames : HasAttr(res.html_text[k], <<"r", "e", "l">>, rel)

\* The result is the link fallback over `scope`.
IsLinkFallback(scope) ==
  IF \E k \in scope : IsImageLink(k)
  THEN LET k == SetMin({j \in scope : IsImageLink(j)}) IN
       IF HasHref(res.html_text[k])
       THEN res.result = urljoin(res.base_url, AttrValue(res.html_text[k], <<"h", "r", "e", "f">>))
       ELSE res.result = None
  ELSE res.result = None

\* C11 as stated: the result is the content of the first candidate in
\* priority order that has a tag with a non-empty content anywhere in the
\* document; the link fallback only when no candidate has one.
C11_HighestPriorityInDocument ==
  (Resolving /\ res.pc = "done") =>
    IF \E c \in 1..Len(META_CANDIDATES) : \E k \in WholeDocument : YieldsAny(WholeDocument, c, k)
    THEN \E c \in 1..Len(META_CANDIDATES) : \E k \in WholeDocument :
           /\ YieldsAny(WholeDocument, c, k)
           /\ \A b \in 1..(c - 1) : \A j \in WholeDocument : ~YieldsAny(WholeDocument, b, j)
           /\ res.result = Resolved(k)
    ELSE IsLinkFallback(WholeDocument)

\* C11 amended: only the tags within the first 200,000 characters count,
\* and each candidate is judged by the first of its tags there.  The result
\* is the content, joined to the base url, of the first candidate in
\* priority order whose first tag has a non-empty content, whatever the
\* order of the tags; the link fallback is used only when no candidate
\* yields, and the result is None when the fallback finds no href either.
C11_HighestPriorityInSnippet ==
  (Resolving /\ res.pc = "done") =>
    IF \E c \in 1..Len(META_CANDIDATES) : \E k \in WithinLimit : YieldsFirst(WithinLimit, c, k)
    THEN \E c \in 1..Len(META_CANDIDATES) : \E k \in WithinLimit :
           /\ YieldsFirst(WithinLimit, c, k)
           /\ \A b \in 1..(c - 1) : \A j \in WithinLimit : ~YieldsFirst(WithinLimit, b, j)
           /\ res.result = Resolved(k)
    ELSE IsLinkFallback(WithinLimit)

\* twitter:image comes first, og:image second, and og:image is returned.
C11_Witness ==
  /\ Resolving
  /\ res.pc = "done"
  /\ Len(res.html_text) = 2
  /\ IsTagOf(1, 6)
  /\ IsTagOf(2, 3)
  /\ res.result = OgJpg

(***************************************************************************)
(* The segmenter as a state machine: extract_recipe_content runs the       *)
(* ingredient scan and then the step scan from the index it returned       *)
(* (SpecContent); extract_steps_section is also run on its own from a      *)
(* given start index (SpecSteps).                                          *)
(***************************************************************************)
MaxSegLines == 3    \* lines of a description

LIngredients == <<"I", "n", "g", "r", "e", "d", "i", "e", "n", "t", "s", ":">>
LFlour == <<"-", " ", "2", " ", "c", "u", "p", "s", " ", "f", "l", "o", "u", "r">>
LEgg == <<"-", " ", "1", " ", "e", "g", "g">>
LMethod == <<"M", "e", "t", "h", "o", "d">>
LMixWell == <<"M", "i", "x", " ", "w", "e", "l", "l">>
LStir == <<"1", ".", " ", "S", "t", "i", "r">>
LHashtag == <<"#", "y", "u", "m">>
LInline == <<"I", "n", "g", "r", "e", "d", "i", "e", "n", "t", "s", ":", " ", "s", "a", "l", "t", ",", " ", "p", "e", "p", "p", "e", "r">>

IngLines == {LIngredients, LFlour, LEgg, LMethod, LMixWell, LStir, LHashtag, LInline}

ExIngredients == <<LIngredients, LFlour, LEgg, LMethod, LMixWell>>

ContentInputs == SeqsUpTo(IngLines, MaxSegLines) \cup {ExIngredients}

LMixFlour == <<"1", ".", " ", "M", "i", "x", " ", "f", "l", "o", "u", "r", " ", "a", "n", "d", " ", "e", "g", "g">>
LBake == <<"2", ".", " ", "B", "a", "k", "e", " ", "a", "t", " ", "3", "5", "0">>
LServe == <<"S", "e", "r", "v", "e", " ", "w", "a", "r", "m">>
LStepCook == <<"S", "t", "e", "p", " ", "1", ":", " ", "C", "o", "o", "k", " ", "t", "h", "e", " ", "p", "a", "s", "t", "a">>
LBulletStir == <<"-", " ", "s", "t", "i", "r">>
LShare == <<"3", ".", " ", "S", "h", "a", "r", "e", " ", "i", "t">>
LEnjoy == <<"E", "n", "j", "o", "y", "!">>

StepLines == {LMixFlour, LBake, LServe, LStepCook, LBulletStir, LHashtag, LMethod, LShare, LEnjoy}

StepInputs == SeqsUpTo(StepLines, MaxSegLines)

\* The state of a scan over `lines`: the ingredient scan from `at`
\* (pc "anchor" before the first loop has found it), or the step scan from
\* `at`.  took, made and scanned are history variables: the lines that gave
\* the ingredients, the lines that opened the steps, and the index the
\* ingredient scan ended at.
Scan(lines, pc, at) ==
  [lines |-> lines, pc |-> pc, start_idx |-> at, i |-> at, ingredients |-> <<>>,
   idx |-> at, steps |-> <<>>, took |-> <<>>, made |-> <<>>, scanned |-> 0]

\* extract_recipe_content(description), the lines being prepare_lines of it.
ContentInit ==
  /\ seg \in {Scan(ls, "anchor", 1) : ls \in ContentInputs}
  /\ dec = Idle /\ pr = Idle /\ tok = Idle /\ run = Idle
  /\ res = Idle /\ cls = Idle /\ cch = Idle

\* extract_steps_section(lines, start_idx)
StepsInit ==
  /\ seg \in {Scan(ls, "steps", at) : ls \in StepInputs, at \in 1..2}
  /\ seg.start_idx <= Len(seg.lines) + 1
  /\ dec = Idle /\ pr = Idle /\ tok = Idle /\ run = Idle
  /\ res = Idle /\ cls = Idle /\ cch = Idle

\* The first loop of extract_ingredients_section: start_idx.
IngAnchor ==
  /\ seg.pc = "anchor"
  /\ seg' = [seg EXCEPT !.pc = "scan",
                        !.start_idx = IngredientStart(seg.lines),
                        !.i = IngredientStart(seg.lines)]
  /\ UNCHANGED <<dec, pr, tok, run, res, cls, cch>>

IngStepped(before, r) ==
  [before EXCEPT !.i = r.i,
                 !.ingredients = r.ingredients,
                 !.took = IF Len(r.ingredients) > Len(before.ingredients)
                          THEN Append(before.took, before.i) ELSE before.took,
                 !.pc = IF r.brk THEN "scanned" ELSE "scan"]

\* One iteration of `while i < len(lines)` of the ingredient scan.
IngStep ==
  /\ seg.pc = "scan"
  /\ seg.i <= Len(seg.lines)
  /\ seg' = IngStepped(seg, IngIter(seg.lines, seg.i, seg.ingredients))
  /\ UNCHANGED <<dec, pr, tok, run, res, cls, cch>>

\* What extract_ingredients_section returns after the loop, the scan having
\* ended at i.
IngResultFromStart(ingredients, i, lines, start_idx) ==
  IF ingredients # <<>>
  THEN [ingredients |-> ingredients, idx |-> start_idx]
  ELSE [ingredients |-> IngredientFallback(lines), idx |-> start_idx]

\* The result with the index the scan ended at in both cases.
IngResultAtStop(ingredients, i, lines, start_idx) ==
  IF ingredients # <<>>
  THEN [ingredients |-> ingredients, idx |-> i]
  ELSE [ingredients |-> IngredientFallback(lines), idx |-> i]

IngResult(ingredients, i, lines, start_idx) ==
  IF ingredients # <<>>
  THEN [ingredients |-> ingredients, idx |-> i]
  ELSE [ingredients |-> IngredientFallback(lines), idx |-> start_idx]

IngReturned(before, found) ==
  [before EXCEPT !.pc = "steps",
                 !.scanned = before.i,
                 !.ingredients = found.ingredients,
                 !.idx = found.idx,
                 !.i = found.idx]

\* The loop is over: extract_ingredients_section returns, and
\* extract_recipe_content starts extract_steps_section at the index.
IngReturn ==
  /\ seg.pc = "scanned" \/ (seg.pc = "scan" /\ seg.i > Len(seg.lines))
  /\ seg' = IngReturned(seg, IngResult(seg.ingredients, seg.i, seg.lines, seg.start_idx))
  /\ UNCHANGED <<dec, pr, tok, run, res, cls, cch>>

StepStepped(before, r) ==
  [before EXCEPT !.i = r.i,
                 !.steps = r.steps,
                 !.made = IF Len(r.steps) > Len(before.steps)
                          THEN Append(before.made, before.i) ELSE before.made,
                 !.pc = IF r.brk THEN "done" ELSE "steps"]

\* One iteration of `while i < len(lines)` of the step scan.
StepStep ==
  /\ seg.pc = "steps"
  /\ seg.i <= Len(seg.lines)
  /\ seg' = StepStepped(seg, StepIter(seg.lines, seg.i, seg.steps))
  /\ UNCHANGED <<dec, pr, tok, run, res, cls, cch>>

\* The loop condition fails: return steps.
StepReturn ==
  /\ seg.pc = "steps"
  /\ seg.i > Len(seg.lines)
  /\ seg' = [seg EXCEPT !.pc = "done"]
  /\ UNCHANGED <<dec, pr, tok, run, res, cls, cch>>

StepsNext == StepStep \/ StepReturn

ContentNext == IngAnchor \/ IngStep \/ IngReturn \/ StepsNext

SpecContent == ContentInit /\ [][ContentNext]_vars

SpecSteps == StepsInit /\ [][StepsNext]_vars

(***************************************************************************)
(* Properties of the segmenter.                                            *)
(***************************************************************************)
Segmenting == seg.pc # "idle"

\* extract_ingredients_section has returned.
IngReturnedYet == Segmenting /\ seg.pc \in {"steps", "done"} /\ seg.scanned # 0

HasIngredientKeyword(line) ==
  AnyOf(INGREDIENT_KEYWORDS, LAMBDA kw : Contains(Lower(line), kw))

StartsWithStopword(line) ==
  AnyOf(INGREDIENT_STOPWORDS, LAMBDA w : StartsWith(Lower(line), w))

\* The line after its bullet marker, without the spaces around.
Remainder(line) == Strip(Tail(line))

\* lines is a header, then the bullet lines 2..n+1, then a stopword line.
HeaderBulletsStop(lines, n) ==
  /\ n >= 1
  /\ Len(lines) >= n + 2
  /\ HasIngredientKeyword(lines[1])
  /\ \A k \in 2..(n + 1) : IsBulletLine(lines[k])
  /\ StartsWithStopword(lines[n + 2])

\* C12: on a keyword header, then one or more bullet lines, then a line
\* starting with a stopword, extract_ingredients_section returns the
\* remainders of the bullet lines in order and the position of the stopword
\* line; on the example it returns (["2 cups flour", "1 egg"], 3), which is
\* index 4 counted from one.
C12_BulletsUntilStopword ==
  IngReturnedYet =>
    /\ \A n \in 1..Len(seg.lines) :
         HeaderBulletsStop(seg.lines, n) =>
           /\ seg.ingredients = [k \in 1..n |-> Remainder(seg.lines[k + 1])]
           /\ seg.idx = n + 2
    /\ seg.lines = ExIngredients =>
         /\ seg.ingredients = <<<<"2", " ", "c", "u", "p", "s", " ", "f", "l", "o", "u", "r">>, <<"1", " ", "e", "g", "g">>>>
         /\ seg.idx = 4

\* The example, its two bullets returned and its index at "Method".
C12_Witness ==
  /\ IngReturnedYet
  /\ seg.lines = ExIngredients
  /\ HeaderBulletsStop(seg.lines, 2)
  /\ Len(seg.ingredients) = 2
  /\ seg.lines[seg.idx] = LMethod

\* extract_steps_section was called on its own and has returned.
StepsReturned == Segmenting /\ seg.scanned = 0 /\ seg.pc = "done"

HasTerminator(line) ==
  AnyOf(INSTRUCTION_TERMINATORS, LAMBDA term : Contains(Lower(line), term))

HasInstructionKeyword(line) ==
  AnyOf(INSTRUCTION_KEYWORDS, LAMBDA kw : Contains(Lower(line), kw))

\* The text of a numbered line after its marker: the digits and '.' or ')'.
TextAfterMarker(line) ==
  Strip(SubSeq(line,
               SetMin({k \in 1..Len(line) : line[k] \in {")", "."}}) + 1,
               Len(line)))

\* A number, '.' or ')', and some text.
NumberedLine(line) == IsNumbered(line) /\ TextAfterMarker(line) # <<>>

\* The lines from..(from + n - 1) are numbered lines.
NumberedRun(lines, from, n) ==
  /\ n >= 1
  /\ from + n - 1 <= Len(lines)
  /\ \A k \in from..(from + n - 1) : NumberedLine(lines[k])

\* No line of the run after its first contains a terminator keyword.
NoTerminatorInside(lines, from, n) ==
  \A k \in (from + 1)..(from + n - 1) : ~HasTerminator(lines[k])

\* The steps begin with one step per line of the run, in order; the last of
\* them may have grown by lines joined onto it.
OneStepPerLine(lines, from, n, steps) ==
  /\ Len(steps) >= n
  /\ \A k \in 1..(n - 1) : steps[k] = TextAfterMarker(lines[from + k - 1])
  /\ StartsWith(steps[n], TextAfterMarker(lines[from + n - 1]))

\* A line with no marker and no keyword: no bullet, no leading digit or
\* "step", no '#' or "http" at its start.
PlainLine(line) ==
  /\ ~IsBulletLine(line)
  /\ line[1] \notin Digits
  /\ ~StartsWith(Lower(line), StepWord)
  /\ ~StartsWith(line, <<"#">>)
  /\ ~StartsWith(Lower(line), <<"h", "t", "t", "p">>)
  /\ ~HasTerminator(line)
  /\ ~HasInstructionKeyword(line)

\* C13 as stated: started on a run of numbered lines, the scan yields one
\* step per numbered line.
C13_OneStepPerNumberedLine ==
  StepsReturned =>
    \A n \in 1..Len(seg.lines) :
      NumberedRun(seg.lines, seg.start_idx, n) =>
        OneStepPerLine(seg.lines, seg.start_idx, n, seg.steps)

\* C13 amended: started on a run of numbered lines none of which, after the
\* first, contains a terminator keyword, the scan yields one step per line
\* in order, each the text after the marker; a plain line met when a step
\* exists is joined by a space onto the last step and leaves the number of
\* steps and the other steps as they are.  The example gives two steps, and
\* a third plain line is merged into the second.
C13_NumberedRunThenContinuation ==
  /\ [](StepsReturned =>
          /\ \A n \in 1..Len(seg.lines) :
               (/\ NumberedRun(seg.lines, seg.start_idx, n)
                /\ NoTerminatorInside(seg.lines, seg.start_idx, n)) =>
                 OneStepPerLine(seg.lines, seg.start_idx, n, seg.steps)
          /\ (seg.lines = <<LMixFlour, LBake>> /\ seg.start_idx = 1) =>
               seg.steps = <<<<"M", "i", "x", " ", "f", "l", "o", "u", "r", " ", "a", "n", "d", " ", "e", "g", "g">>, <<"B", "a", "k", "e", " ", "a", "t", " ", "3", "5", "0">>>>
          /\ (seg.lines = <<LMixFlour, LBake, LServe>> /\ seg.start_idx = 1) =>
               seg.steps = <<<<"M", "i", "x", " ", "f", "l", "o", "u", "r", " ", "a", "n", "d", " ", "e", "g", "g">>, <<"B", "a", "k", "e", " ", "a", "t", " ", "3", "5", "0", " ", "S", "e", "r", "v", "e", " ", "w", "a", "r", "m">>>>)
  /\ [][(/\ Segmenting
         /\ seg.pc = "steps"
         /\ seg.i <= Len(seg.lines)
         /\ seg.steps # <<>>
         /\ PlainLine(seg.lines[seg.i])) =>
          /\ seg'.i = seg.i + 1
          /\ Len(seg'.steps) = Len(seg.steps)
          /\ seg'.steps[Len(seg.steps)] =
               seg.steps[Len(seg.steps)] \o <<" ">> \o seg.lines[seg.i]
          /\ \A k \in 1..(Len(seg.steps) - 1) : seg'.steps[k] = seg.steps[k]]_vars

\* The example with its continuation line: two steps, the second grown.
C13_Witness ==
  /\ StepsReturned
  /\ seg.lines = <<LMixFlour, LBake, LServe>>
  /\ seg.start_idx = 1
  /\ Len(seg.steps) = 2
  /\ seg.made = <<1, 2>>

(***************************************************************************)
(* The classifier as main runs it: infer_tags on the title and the         *)
(* ingredients, then infer_meal_types with the tags it gave.               *)
(***************************************************************************)
MaxIngredients == 2

TitleSalad == <<"G", "a", "r", "d", "e", "n", " ", "S", "a", "l", "a", "d">>
TitleSoupSalad == <<"S", "o", "u", "p", " ", "a", "n", "d", " ", "S", "a", "l", "a", "d">>
TitleSoup == <<"T", "o", "m", "a", "t", "o", " ", "S", "o", "u", "p">>
TitlePancakes == <<"P", "a", "n", "c", "a", "k", "e", "s">>
TitleBeefy == <<"B", "e", "e", "f", "y", " ", "R", "i", "c", "e">>
TitleBites == <<"S", "n", "a", "c", "k", " ", "B", "i", "t", "e", "s">>
TitleCheesecake == <<"C", "h", "e", "e", "s", "e", "c", "a", "k", "e">>

ClsTitles ==
  {TitleStew, TitleSalad, TitleSoupSalad, TitleSoup, TitlePancakes, TitleBeefy,
   TitleBites, TitleCheesecake}

ClsIngredients == {<<"2", " ", "e", "g", "g", "s">>, <<"s", "h", "o", "r", "t", " ", "r", "i", "b", "s">>, <<"1", " ", "c", "a", "n", " ", "T", "u", "n", "a">>, <<"k", "a", "l", "e">>}

ClsInit ==
  /\ cls \in {[title |-> t, ingredients |-> ings, tags |-> <<>>, meal_types |-> <<>>,
               pc |-> "tags"] :
                t \in ClsTitles, ings \in SeqsUpTo(ClsIngredients, MaxIngredients)}
  /\ dec = Idle /\ pr = Idle /\ tok = Idle /\ run = Idle
  /\ res = Idle /\ seg = Idle /\ cch = Idle

\* inferred_tags = infer_tags(title, ingredients)
ClsTags ==
  /\ cls.pc = "tags"
  /\ cls' = [cls EXCEPT !.tags = infer_tags(cls.title, cls.ingredients), !.pc = "meals"]
  /\ UNCHANGED <<dec, pr, tok, run, res, seg, cch>>

\* infer_meal_types(title, ingredients, inferred_tags)
ClsMeals ==
  /\ cls.pc = "meals"
  /\ cls' = [cls EXCEPT
               !.meal_types = infer_meal_types(cls.title, cls.ingredients, cls.tags),
               !.pc = "done"]
  /\ UNCHANGED <<dec, pr, tok, run, res, seg, cch>>

ClsNext == ClsTags \/ ClsMeals

SpecClassify == ClsInit /\ [][ClsNext]_vars

(***************************************************************************)
(* Properties of the classifier.                                           *)
(***************************************************************************)
Classifying == cls.pc # "idle"

ClsText == ClassifierText(cls.title, cls.ingredients)

Has(names, name) == \E n \in 1..Len(names) : names[n] = name

\* Some meat or seafood keyword matches the text.
MeatNamed == \E n \in 1..Len(MEAT_KEYWORDS) : keyword_in_text(ClsText, MEAT_KEYWORDS[n])

\* C14: "vegetarian" is a tag if and only if no meat or seafood keyword
\* matches the lower-cased title and ingredients; "Beef Stew" has "stew"
\* and never "vegetarian", "Garden Salad" without ingredients has
\* "vegetarian".
C14_VegetarianIffNoMeat ==
  (Classifying /\ cls.pc # "tags") =>
    /\ Has(cls.tags, "vegetarian") <=> ~MeatNamed
    /\ cls.title = TitleStew => (Has(cls.tags, "stew") /\ ~Has(cls.tags, "vegetarian"))
    /\ (cls.title = TitleSalad /\ cls.ingredients = <<>>) => Has(cls.tags, "vegetarian")
    /\ (\E n \in 1..Len(cls.ingredients) : cls.ingredients[n] = <<"s", "h", "o", "r", "t", " ", "r", "i", "b", "s">>) =>
         ~Has(cls.tags, "vegetarian")

\* "Garden Salad" with a meat ingredient: tagged, and not vegetarian.
C14_Witness ==
  /\ Classifying
  /\ cls.pc = "done"
  /\ cls.title = TitleSalad
  /\ cls.ingredients = <<<<"1", " ", "c", "a", "n", " ", "T", "u", "n", "a">>>>
  /\ Has(cls.tags, "salad")
  /\ ~Has(cls.tags, "vegetarian")

Word(name) ==
  CASE name = "breakfast" -> <<"b", "r", "e", "a", "k", "f", "a", "s", "t">>
    [] name = "brunch" -> <<"b", "r", "u", "n", "c", "h">>
    [] name = "dessert" -> <<"d", "e", "s", "s", "e", "r", "t">>
    [] name = "salad" -> <<"s", "a", "l", "a", "d">>
    [] name = "soup" -> <<"s", "o", "u", "p">>

\* The tag is among the tags, or its word matches the text.
TagOrWord(name) == Has(cls.tags, name) \/ keyword_in_text(ClsText, Word(name))

\* No breakfast, brunch, dessert, lunch or dinner keyword or tag matched.
NoMealMatched ==
  /\ ~TagOrWord("breakfast")
  /\ ~TagOrWord("brunch")
  /\ ~TagOrWord("dessert")
  /\ ~Has(cls.tags, "lunch")
  /\ ~Has(cls.tags, "dinner")
  /\ \A n \in 1..Len(MEAL_KEYWORDS) :
       \A k \in 1..Len(MEAL_KEYWORDS[n].keywords) :
         ~keyword_in_text(ClsText, MEAL_KEYWORDS[n].keywords[k])

\* The place of a name in the order of sorted().
Rank(name) == CHOOSE n \in 1..Len(SortedNames) : SortedNames[n] = name

\* C15: when nothing matched, the result is the one meal type of the
\* precedence salad -> lunch, soup -> dinner, dessert tag -> dessert, else
\* dinner; in every case the result is non-empty, sorted and without
\* duplicates.
C15_MealFallbackPrecedence ==
  (Classifying /\ cls.pc = "done") =>
    /\ cls.meal_types # <<>>
    /\ \A n \in 1..(Len(cls.meal_types) - 1) :
         Rank(cls.meal_types[n]) < Rank(cls.meal_types[n + 1])
    /\ NoMealMatched =>
         cls.meal_types =
           IF TagOrWord("salad") THEN <<"lunch">>
           ELSE IF TagOrWord("soup") THEN <<"dinner">>
           ELSE IF Has(cls.tags, "dessert") THEN <<"dessert">>
           ELSE <<"dinner">>

\* Soup and salad both present, nothing else matched: lunch.
C15_Witness ==
  /\ Classifying
  /\ cls.pc = "done"
  /\ cls.title = TitleSoupSalad
  /\ NoMealMatched
  /\ Has(cls.tags, "soup")
  /\ Has(cls.tags, "salad")
  /\ cls.meal_types = <<"lunch">>

\* The ingredient scan is returning: the step from the loop to the step scan.
IngReturning == seg.pc \in {"scan", "scanned"} /\ seg'.pc = "steps"

\* C18 as stated: the index extract_ingredients_section returns is always
\* the position where the forward scan stopped.
C18_IndexIsScanStop == IngReturnedYet => seg.idx = seg.scanned

\* C18: the index extract_ingredients_section returns is the position where
\* the forward scan stopped when the scan collected an ingredient, and the
\* index the scan started at (the line after the first keyword line, the
\* first line if there is none) when it collected nothing; the step scan
\* of extract_recipe_content starts at the returned index.
C18_IndexIsStopOrStart ==
  [][IngReturning =>
       /\ seg'.scanned = seg.i
       /\ seg'.idx = IF seg.took # <<>> THEN seg.i ELSE IngredientStart(seg.lines)
       /\ seg'.i = seg'.idx
       /\ seg'.steps = <<>>]_vars

\* The scan collected nothing, the comma-split fallback gave the
\* ingredients, and the index is where the scan started, not where it ended.
C18_Witness ==
  /\ IngReturnedYet
  /\ seg.lines = <<LInline, LMixWell, LMethod>>
  /\ seg.took = <<>>
  /\ seg.ingredients # <<>>
  /\ seg.scanned = Len(seg.lines) + 1
  /\ seg.idx = 2

\* An iteration of the ingredient scan with an ingredient already collected.
IngScanningOn == seg.pc = "scan" /\ seg.i <= Len(seg.lines) /\ seg.ingredients # <<>>

\* The line is one that ends the section: a numbered-list, stopword, '#'
\* or URL line, or one that is no bullet, no subheading, and holds no
\* measurement and no digit.
EndsSection(line) ==
  \/ IsNumbered(line)
  \/ StartsWithStopword(line)
  \/ StartsWith(line, <<"#">>)
  \/ StartsWith(Lower(line), <<"h", "t", "t", "p">>)
  \/ /\ ~IsBulletLine(line)
     /\ ~AnyOf(SubheadingPrefixes, LAMBDA pre : StartsWith(Lower(line), pre))
     /\ ~MatchesMeasurement(Lower(line))
     /\ ~HasDigit(line)

\* The positions of the lines holding an ingredient keyword.
AnchorLines(lines) == {k \in 1..Len(lines) : HasIngredientKeyword(lines[k])}

\* The lines that gave the ingredients are one block after the anchor.
OneBlockAfterAnchor ==
  /\ \A n \in 1..(Len(seg.took) - 1) : seg.took[n + 1] = seg.took[n] + 1
  /\ \A n \in 1..Len(seg.took) :
       AnchorLines(seg.lines) # {} => seg.took[n] > SetMin(AnchorLines(seg.lines))
  /\ Len(seg.took) = Len(seg.ingredients) \/ seg.took = <<>>

\* C19: once an ingredient is collected, every following line either
\* contributes an ingredient or ends the scan; the contributing lines are
\* one contiguous block after the anchor keyword line; a numbered-list,
\* stopword, '#', URL or unclassifiable line after the first ingredient ends
\* the section.
C19_NoSkipAfterFirstIngredient ==
  [][(IngScanningOn /\ seg'.pc \in {"scan", "scanned"}) =>
       /\ \/ /\ seg'.pc = "scan"
             /\ seg'.i = seg.i + 1
             /\ Len(seg'.ingredients) = Len(seg.ingredients) + 1
             /\ seg'.took = Append(seg.took, seg.i)
          \/ /\ seg'.pc = "scanned"
             /\ seg'.i = seg.i
             /\ seg'.ingredients = seg.ingredients
       /\ EndsSection(seg.lines[seg.i]) <=> seg'.pc = "scanned"
       /\ OneBlockAfterAnchor']_vars

\* Two ingredients collected, and a line that cannot be classified ended
\* the scan.
C19_Witness ==
  /\ Segmenting
  /\ seg.pc = "scanned"
  /\ seg.lines = <<LIngredients, LFlour, LMixWell>>
  /\ seg.took = <<2>>
  /\ seg.i = 3

\* An iteration of the step scan at a line the scan does not end at.
StepScanningAt ==
  /\ seg.pc = "steps"
  /\ seg.i <= Len(seg.lines)
  /\ ~StartsWith(seg.lines[seg.i], <<"#">>)
  /\ ~StartsWith(Lower(seg.lines[seg.i]), <<"h", "t", "t", "p">>)
  /\ ~(HasTerminator(seg.lines[seg.i]) /\ seg.steps # <<>>)

\* C20: a line that is a numbered item under the step pattern is never
\* skipped as a section header, even when it holds an instruction keyword:
\* when the scan reaches it, its remainder becomes a new step.
C20_NumberedItemNeverSkipped ==
  [][(StepScanningAt /\ NumericText(seg.lines[seg.i]) # None) =>
       seg'.steps = Append(seg.steps, NumericText(seg.lines[seg.i]))]_vars

(***************************************************************************)
(* The two cache scripts: cache_recipe_images and                          *)
(* cache_source_preview_images.  A path is the text of the path; the image *)
(* directory is the set of the paths of its files.                         *)
(***************************************************************************)
SlugLimit == 60

\* The characters SAFE_SLUG_RE leaves alone.
SlugChars ==
  {"a", "b", "c", "d", "e", "f", "g", "h", "i", "j", "k", "l", "m", "n", "o", "p", "q",
   "r", "s", "t", "u", "v", "w", "x", "y", "z"} \cup Digits

\* SAFE_SLUG_RE.sub("-", value): every run of other characters becomes one
\* hyphen.
Hyphenated(value) ==
  LET marked == [k \in 1..Len(value) |-> IF value[k] \in SlugChars THEN value[k] ELSE "-"]
      kept   == {k \in 1..Len(value) : value[k] \in SlugChars \/ k = 1 \/ value[k - 1] \in SlugChars}
  IN [n \in 1..Cardinality(kept) |->
        marked[CHOOSE k \in kept : Cardinality({j \in kept : j <= k}) = n]]

TitleBang == <<"!", "!", "!">>

\* hashlib.sha1(value.encode("utf-8")).hexdigest()[:10]
Sha1Prefix(value) ==
  IF value = TitleBang THEN <<"9", "a", "7", "b", "0", "0", "6", "d", "2", "0">> ELSE <<"<sha1>">>

\* slugify of both scripts.
slugify(value) ==
  LET slug == StripChars(Hyphenated(Lower(value)), {"-"})
  IN IF slug # <<>> THEN Prefix(slug, SlugLimit)
     ELSE <<"r", "e", "c", "i", "p", "e", "-">> \o Sha1Prefix(value)

\* urlparse(url).path of an https url, of a data: url and of a path.
PathOf(url) ==
  IF StartsWith(url, HTTPS) THEN UrlPath(url)
  ELSE IF StartsWith(url, <<"d", "a", "t", "a", ":">>) THEN WithoutQuery(SubSeq(url, 6, Len(url)))
  ELSE WithoutQuery(url)

\* Path(path).suffix.lower(): the last component from its last dot on, if
\* the dot is neither its first nor its last character.
Suffix(path) ==
  LET name == Split(path, "/")[Len(Split(path, "/"))]
      dots == {k \in 1..Len(name) : name[k] = "."}
  IN IF dots = {} \/ SetMax(dots \cup {0}) \in {1, Len(name)} THEN <<>>
     ELSE Lower(SubSeq(name, SetMax(dots), Len(name)))

VALID_EXTENSIONS == {<<".", "j", "p", "g">>, <<".", "j", "p", "e", "g">>, <<".", "p", "n", "g">>, <<".", "g", "i", "f">>, <<".", "w", "e", "b", "p">>}

\* mimetypes.guess_extension(ctype)
MimeExtension(ctype) ==
  CASE ctype = <<"i", "m", "a", "g", "e", "/", "p", "n", "g">> -> <<".", "p", "n", "g">>
    [] ctype = <<"i", "m", "a", "g", "e", "/", "j", "p", "e", "g">> -> <<".", "j", "p", "g">>
    [] ctype = <<"i", "m", "a", "g", "e", "/", "g", "i", "f">> -> <<".", "g", "i", "f">>
    [] ctype = <<"i", "m", "a", "g", "e", "/", "w", "e", "b", "p">> -> <<".", "w", "e", "b", "p">>
    [] ctype = <<"i", "m", "a", "g", "e", "/", "a", "v", "i", "f">> -> <<".", "a", "v", "i", "f">>
    [] ctype = <<"t", "e", "x", "t", "/", "h", "t", "m", "l">> -> <<".", "h", "t", "m", "l">>
    [] OTHER -> None

\* content_type.split(";")[0].strip()
MimeType(content_type) == Strip(Split(content_type, ";")[1])

\* guess_extension of cache_recipe_images
guess_extension(url, content_type) ==
  IF Suffix(PathOf(url)) \in VALID_EXTENSIONS THEN Suffix(PathOf(url))
  ELSE IF content_type # None /\ MimeExtension(MimeType(content_type)) \in VALID_EXTENSIONS
  THEN MimeExtension(MimeType(content_type))
  ELSE <<".", "j", "p", "g">>

\* guess_extension of cache_source_preview_images
guess_preview_extension(url, content_type) ==
  IF Suffix(PathOf(url)) \in (VALID_EXTENSIONS \cup {<<".", "a", "v", "i", "f">>})
  THEN (IF Suffix(PathOf(url)) = <<".", "j", "p", "e", "g">> THEN <<".", "j", "p", "g">> ELSE Suffix(PathOf(url)))
  ELSE IF content_type # None /\ MimeExtension(MimeType(content_type)) # None
  THEN (IF MimeExtension(MimeType(content_type)) = <<".", "j", "p", "e">> THEN <<".", "j", "p", "g">>
        ELSE MimeExtension(MimeType(content_type)))
  ELSE <<".", "j", "p", "g">>

Public == <<"p", "u", "b", "l", "i", "c">>

\* _to_public_path: the path relative to public/, from the root.
to_public_path(path) ==
  IF StartsWith(path, Public \o <<"/">>) THEN SubSeq(path, Len(Public) + 1, Len(path))
  ELSE None

\* str(n)
RECURSIVE Decimal(_)
Decimal(n) ==
  IF n < 10 THEN <<(<<"0", "1", "2", "3", "4", "5", "6", "7", "8", "9">>)[n + 1]>>
  ELSE Decimal(n \div 10) \o Decimal(n % 10)

\* slug_counts after the entry with this slug is counted.
Counted(slug_counts, slug) ==
  [s \in DOMAIN slug_counts \cup {slug} |->
     IF s # slug THEN slug_counts[s]
     ELSE IF s \in DOMAIN slug_counts THEN slug_counts[s] + 1 ELSE 1]

\* final_slug
FinalSlug(slug, count) ==
  IF count = 1 THEN slug ELSE slug \o <<"-">> \o Decimal(count)

\* image_dir / f"{final_slug}{ext}"
TargetFile(image_dir, final_slug, ext) == image_dir \o <<"/">> \o final_slug \o ext

\* entry.get("imageUrl"), entry.get("title") and entry.get("sourceUrl") of
\* an entry of recipes.json.
Recipe(title, imageUrl, sourceUrl) ==
  [title |-> title, imageUrl |-> imageUrl, sourceUrl |-> sourceUrl]

\* image_url = (entry.get("imageUrl") or "").strip()
ImageUrlOf(entry) == Strip(entry.imageUrl)

\* title = entry.get("title", "").strip() or "recipe"
TitleOf(entry) == IF Strip(entry.title) = <<>> THEN <<"r", "e", "c", "i", "p", "e">> ELSE Strip(entry.title)

\* The test of cache_recipe_images for an entry it leaves alone, which
\* takes every url that is not local.
IsLeftAloneDataOnly(image_url) ==
  image_url = <<>> \/ StartsWith(image_url, <<"d", "a", "t", "a", ":">>)

\* not image_url or image_url.startswith(("data:", "/"))
IsLeftAlone(image_url) ==
  image_url = <<>> \/ StartsWith(image_url, <<"d", "a", "t", "a", ":">>) \/ StartsWith(image_url, <<"/">>)

\* The state of a run of a cache script.  orig, files0, downloads, pages and
\* slugs are history variables: the recipes and the image files before the
\* run, the image requests (the entry, the url, and whether the image was got
\* and written), the page requests (the entry, and whether any gave a page)
\* and the final slugs (the entry and its final_slug).  runs counts the runs
\* of the script on the same recipes file and image directory.
Cache(script, entries, image_dir, files, skip_existing, dry_run) ==
  [pc |-> "start", script |-> script, entries |-> entries, orig |-> entries,
   disk |-> entries, image_dir |-> image_dir, dir |-> files # {}, files |-> files,
   files0 |-> files, skip_existing |-> skip_existing, dry_run |-> dry_run, i |-> 1,
   slug_counts |-> <<>>, changed |-> FALSE, wrote |-> FALSE, downloads |-> <<>>,
   pages |-> <<>>, slugs |-> <<>>, runs |-> 1]

\* continue
Advanced(c) == [c EXCEPT !.i = c.i + 1]

\* download_image raised, or write_bytes did.
Failed == [ok |-> FALSE, content_type |-> None]

\* download_image returned (content, content_type).
Got(content_type) == [ok |-> TRUE, content_type |-> content_type]

\* Of the urls of the model only the http ones can be requested; a request
\* for any other raises.
CanRequest(url) == StartsWith(url, <<"h", "t", "t", "p">>)

\* The request for the image, or the write of it, raised, and changed is
\* set all the same.
RefusedSetsChanged(c, url) ==
  [c EXCEPT !.downloads = Append(c.downloads, [entry |-> c.i, url |-> url, ok |-> FALSE]),
            !.changed = TRUE]

\* The request for the image, or the write of it, raised: the except
\* clauses, which print a warning.
Refused(c, url) ==
  [c EXCEPT !.downloads = Append(c.downloads, [entry |-> c.i, url |-> url, ok |-> FALSE])]

\* entry["imageUrl"] = new_url, changed = True, when the entry does not have it yet.
Pointed(c, new_url) ==
  IF c.entries[c.i].imageUrl # new_url
  THEN [c EXCEPT !.entries[c.i].imageUrl = new_url, !.changed = TRUE]
  ELSE c

\* The branch of cache_recipe_images for a target file that exists.
Reused(c, target_file) ==
  IF to_public_path(target_file) # None THEN Pointed(c, to_public_path(target_file)) ELSE c

\* target_file.write_bytes(content) and the lines after it.
Saved(c, image_url, target_file) ==
  [c EXCEPT !.downloads = Append(c.downloads, [entry |-> c.i, url |-> image_url, ok |-> TRUE]),
            !.files = c.files \cup {target_file},
            !.entries[c.i].imageUrl =
               IF to_public_path(target_file) # None THEN to_public_path(target_file)
               ELSE target_file,
            !.changed = TRUE]

\* The try block of cache_recipe_images for the entry at c.i.
ImgCached(c, final_slug, image_url, outcome) ==
  IF c.skip_existing
     /\ TargetFile(c.image_dir, final_slug, guess_extension(image_url, None)) \in c.files
  THEN Reused(c, TargetFile(c.image_dir, final_slug, guess_extension(image_url, None)))
  ELSE IF c.dry_run THEN c
  ELSE IF ~outcome.ok \/ ~CanRequest(image_url) THEN Refused(c, image_url)
  ELSE Saved(c, image_url,
             TargetFile(c.image_dir, final_slug, guess_extension(image_url, outcome.content_type)))

\* The entry is counted under its slug.
Slugged(c, slug) ==
  [c EXCEPT !.slug_counts = Counted(c.slug_counts, slug),
            !.slugs = Append(c.slugs, [entry |-> c.i,
                                       final_slug |-> FinalSlug(slug, Counted(c.slug_counts, slug)[slug])])]

\* final_slug of the entry just counted.
FinalSlugOf(c, slug) == FinalSlug(slug, c.slug_counts[slug])

ImgCounted(c, slug, image_url, outcome) ==
  ImgCached(c, FinalSlugOf(c, slug), image_url, outcome)

\* One iteration of the for loop of update_recipes of cache_recipe_images.
ImgIter(c, outcome) ==
  IF IsLeftAlone(ImageUrlOf(c.entries[c.i])) THEN Advanced(c)
  ELSE Advanced(ImgCounted(Slugged(c, slugify(TitleOf(c.entries[c.i]))),
                           slugify(TitleOf(c.entries[c.i])),
                           ImageUrlOf(c.entries[c.i]), outcome))

PAGE_HEADER_VARIANTS == <<"browser", "agent", "none">>

\* requests.get raised, or raise_for_status did.
NoResponse == [ok |-> FALSE, url |-> None, text |-> <<>>]

\* A response with its final url and its text.
Response(url, text) == [ok |-> TRUE, url |-> url, text |-> text]

\* final_url = response.url or source_url
FinalUrl(response, source_url) == IF response.url # None THEN response.url ELSE source_url

\* resolve_preview_url(source_url), responses[k] being what the request
\* with the k-th headers gives: (preview_url, final_url).
RECURSIVE ResolveLoop(_, _, _, _)
ResolveLoop(source_url, responses, k, last_final_url) ==
  IF k > Len(PAGE_HEADER_VARIANTS)
  THEN [preview_url |-> None, referer |-> last_final_url]
  ELSE IF ~responses[k].ok
  THEN ResolveLoop(source_url, responses, k + 1, source_url)
  ELSE IF extract_preview_from_html(responses[k].text, FinalUrl(responses[k], source_url)) # None
  THEN [preview_url |-> extract_preview_from_html(responses[k].text,
                                                  FinalUrl(responses[k], source_url)),
        referer |-> FinalUrl(responses[k], source_url)]
  ELSE ResolveLoop(source_url, responses, k + 1, FinalUrl(responses[k], source_url))

resolve_preview_url(source_url, responses) == ResolveLoop(source_url, responses, 1, None)

\* candidates
Candidates(resolved, source_url, fallback) ==
  IF resolved.preview_url # None
  THEN <<[url |-> resolved.preview_url, referer |-> resolved.referer, label |-> "preview"]>>
  ELSE IF fallback # <<>>
  THEN <<[url |-> fallback, referer |-> source_url, label |-> "fallback imageUrl"]>>
  ELSE <<>>

\* The lines after the candidate loop, saved_path being set.
Mapped(c, saved_path) ==
  IF c.dry_run THEN c
  ELSE IF to_public_path(saved_path) # None THEN Pointed(c, to_public_path(saved_path))
  ELSE [c EXCEPT !.entries[c.i].imageUrl = saved_path, !.changed = TRUE]

\* target_path.write_bytes(content), saved_path = target_path
Written(c, candidate_url, target_path) ==
  Mapped([c EXCEPT !.downloads = Append(c.downloads,
                                        [entry |-> c.i, url |-> candidate_url, ok |-> TRUE]),
                   !.files = c.files \cup {target_path}],
         target_path)

\* The candidate loop of cache_source_preview_images and the lines after
\* it, for the entry at c.i.
PrvCached(c, final_slug, candidates, outcome) ==
  IF candidates = <<>> THEN c
  ELSE IF c.skip_existing
          /\ TargetFile(c.image_dir, final_slug,
                        guess_preview_extension(candidates[1].url, None)) \in c.files
  THEN Mapped(c, TargetFile(c.image_dir, final_slug,
                            guess_preview_extension(candidates[1].url, None)))
  ELSE IF c.dry_run THEN c
  ELSE IF ~outcome.ok \/ ~CanRequest(candidates[1].url) THEN Refused(c, candidates[1].url)
  ELSE Written(c, candidates[1].url,
               TargetFile(c.image_dir, final_slug,
                          guess_preview_extension(candidates[1].url, outcome.content_type)))

\* preview_url, referer = resolve_preview_url(source_url) and what follows.
PrvResolved(c, final_slug, resolved, source_url, outcome) ==
  PrvCached(c, final_slug,
            Candidates(resolved, source_url, ImageUrlOf(c.entries[c.i])), outcome)

\* Some request for the page gave a response.
PageFetched(responses) == \E k \in 1..Len(responses) : responses[k].ok

PrvCounted(c, slug, source_url, responses, outcome) ==
  IF c.skip_existing /\ StartsWith(ImageUrlOf(c.entries[c.i]), <<"/">>) THEN c
  ELSE PrvResolved([c EXCEPT !.pages = Append(c.pages, [entry |-> c.i,
                                                        ok |-> PageFetched(responses)])],
                   FinalSlugOf(c, slug), resolve_preview_url(source_url, responses),
                   source_url, outcome)

\* One iteration of the for loop of update_recipes of
\* cache_source_preview_images.
PrvIter(c, responses, outcome) ==
  IF Strip(c.entries[c.i].sourceUrl) = <<>> THEN Advanced(c)
  ELSE Advanced(PrvCounted(Slugged(c, slugify(TitleOf(c.entries[c.i]))),
                           slugify(TitleOf(c.entries[c.i])),
                           Strip(c.entries[c.i].sourceUrl), responses, outcome))

\* main writes the recipes file.
ShouldWriteWhenChanged(dry_run, changed) == changed

ShouldWrite(dry_run, changed) == ~dry_run /\ changed

\* ensure_directory(image_dir), changed = False, slug_counts = {}
Started(c) == [c EXCEPT !.pc = "loop", !.dir = TRUE]

\* update_recipes returns changed, and main ends.
Finished(c) ==
  IF ShouldWrite(c.dry_run, c.changed)
  THEN [c EXCEPT !.pc = "done", !.disk = c.entries, !.wrote = TRUE]
  ELSE [c EXCEPT !.pc = "done"]

(***************************************************************************)
(* The runs of the cache scripts.                                          *)
(***************************************************************************)
MaxEntries == 2

UrlPng == <<"h", "t", "t", "p", "s", ":", "/", "/", "c", "d", "n", ".", "e", "x", "a", "m", "p", "l", "e", "/", "a", ".", "p", "n", "g">>
UrlNoSuffix == <<"h", "t", "t", "p", "s", ":", "/", "/", "c", "d", "n", ".", "e", "x", "a", "m", "p", "l", "e", "/", "b", "?", "x", "=", "1", ".", "g", "i", "f">>
UrlData == <<"d", "a", "t", "a", ":", "i", "m", "a", "g", "e", "/", "p", "n", "g", ";", "b", "a", "s", "e", "6", "4", ",", "A", "A">>
UrlCached == <<"c", "a", "c", "h", "e", "/", "p", "i", "e", ".", "j", "p", "g">>
UrlLocal == <<"/", "i", "m", "a", "g", "e", "s", "/", "r", "e", "c", "i", "p", "e", "s", "/", "p", "i", "e", ".", "p", "n", "g">>
TitlePie == <<"P", "i", "e">>

ImgRecipes ==
  {Recipe(TitlePie, UrlPng, None),
   Recipe(TitlePie, UrlLocal, None),
   Recipe(TitleBang, <<" ">> \o UrlNoSuffix \o <<" ">>, None),
   Recipe(None, UrlData, None),
   Recipe(TitlePie, None, None)}

PrvRecipes ==
  {Recipe(TitlePie, None, BaseUrl),
   Recipe(TitlePie, UrlLocal, BaseUrl),
   Recipe(TitlePie, UrlPng, BaseUrl),
   Recipe(TitlePie, UrlCached, BaseUrl),
   Recipe(None, UrlData, None)}

ImageDirs == {<<"p", "u", "b", "l", "i", "c", "/", "i", "m", "a", "g", "e", "s", "/", "r", "e", "c", "i", "p", "e", "s">>, <<"c", "a", "c", "h", "e">>}

\* The image directory is empty, or holds pie.png and pie.jpg.
ImageFiles(image_dir) ==
  {{}, {TargetFile(image_dir, <<"p", "i", "e">>, <<".", "p", "n", "g">>), TargetFile(image_dir, <<"p", "i", "e">>, <<".", "j", "p", "g">>)}}

ContentTypes == {None, <<"i", "m", "a", "g", "e", "/", "p", "n", "g", ";", " ", "q", "=", "1">>}

DownloadOutcomes == {Failed} \cup {Got(t) : t \in ContentTypes}

PageOg ==
  <<Element("meta", <<Attr(<<"p", "r", "o", "p", "e", "r", "t", "y">>, <<"o", "g", ":", "i", "m", "a", "g", "e">>), Attr(<<"c", "o", "n", "t", "e", "n", "t">>, OgJpg)>>)>>

PageBare == <<OtherText(10)>>

PageResponses ==
  {<<NoResponse, NoResponse, NoResponse>>,
   <<NoResponse, Response(BaseUrl, PageBare), Response(BaseUrl, PageOg)>>,
   <<NoResponse, NoResponse, Response(BaseUrl, PageBare)>>}

CacheInit ==
  /\ \E script \in {"images", "previews"}, image_dir \in ImageDirs,
        skip_existing \in BOOLEAN, dry_run \in BOOLEAN :
       \E entries \in SeqsUpTo(IF script = "images" THEN ImgRecipes ELSE PrvRecipes, MaxEntries),
          files \in ImageFiles(image_dir) :
         cch = Cache(script, entries, image_dir, files, skip_existing, dry_run)
  /\ dec = Idle /\ pr = Idle /\ tok = Idle /\ run = Idle
  /\ res = Idle /\ seg = Idle /\ cls = Idle

\* cache_recipe_images: update_recipes is entered.
ImgStart ==
  /\ cch.pc = "start" /\ cch.script = "images"
  /\ cch' = Started(cch)
  /\ UNCHANGED <<dec, pr, tok, run, res, seg, cls>>

\* cache_recipe_images: one entry.
ImgStep ==
  /\ cch.pc = "loop" /\ cch.script = "images"
  /\ cch.i <= Len(cch.entries)
  /\ \E outcome \in DownloadOutcomes : cch' = ImgIter(cch, outcome)
  /\ UNCHANGED <<dec, pr, tok, run, res, seg, cls>>

\* cache_recipe_images: the loop is over, main goes on.
ImgMain ==
  /\ cch.pc = "loop" /\ cch.script = "images"
  /\ cch.i > Len(cch.entries)
  /\ cch' = Finished(cch)
  /\ UNCHANGED <<dec, pr, tok, run, res, seg, cls>>

\* cache_source_preview_images: update_recipes is entered.
PrvStart ==
  /\ cch.pc = "start" /\ cch.script = "previews"
  /\ cch' = Started(cch)
  /\ UNCHANGED <<dec, pr, tok, run, res, seg, cls>>

\* cache_source_preview_images: one entry.
PrvStep ==
  /\ cch.pc = "loop" /\ cch.script = "previews"
  /\ cch.i <= Len(cch.entries)
  /\ \E responses \in PageResponses, outcome \in DownloadOutcomes :
       cch' = PrvIter(cch, responses, outcome)
  /\ UNCHANGED <<dec, pr, tok, run, res, seg, cls>>

\* cache_source_preview_images: the loop is over, main goes on.
PrvMain ==
  /\ cch.pc = "loop" /\ cch.script = "previews"
  /\ cch.i > Len(cch.entries)
  /\ cch' = Finished(cch)
  /\ UNCHANGED <<dec, pr, tok, run, res, seg, cls>>

CacheNext == ImgStart \/ ImgStep \/ ImgMain \/ PrvStart \/ PrvStep \/ PrvMain

SpecCache == CacheInit /\ [][CacheNext]_vars

(***************************************************************************)
(* Properties of the cache scripts.                                        *)
(***************************************************************************)
Caching == cch.pc # "idle"

\* The imageUrl is empty, a data: url or a local path.
NothingToCache(entry) ==
  \/ entry.imageUrl = <<>>
  \/ StartsWith(entry.imageUrl, <<"d", "a", "t", "a", ":">>)
  \/ StartsWith(entry.imageUrl, <<"/">>)

\* C16: cache_recipe_images leaves every entry whose imageUrl is empty,
\* starts with "data:" or starts with "/" unchanged, in memory and in the
\* recipes file, and requests no image for it, whatever the other entries
\* and the options are.
C16_LocalEntriesLeftAlone ==
  (Caching /\ cch.script = "images") =>
    \A n \in 1..Len(cch.orig) :
      NothingToCache(cch.orig[n]) =>
        /\ cch.entries[n] = cch.orig[n]
        /\ cch.disk[n] = cch.orig[n]
        /\ \A d \in 1..Len(cch.downloads) : cch.downloads[d].entry # n

\* A local entry was passed by while the entry after it was cached and the
\* file written.
C16_Witness ==
  /\ Caching
  /\ cch.script = "images"
  /\ cch.pc = "done"
  /\ cch.wrote
  /\ Len(cch.orig) = 2
  /\ cch.orig[1].imageUrl = UrlLocal
  /\ cch.entries[1] = cch.orig[1]
  /\ cch.entries[2] # cch.orig[2]
  /\ cch.downloads = <<[entry |-> 2, url |-> UrlPng, ok |-> TRUE]>>

\* C17: with --dry-run neither script requests an image, writes a file in
\* the image directory or writes the recipes file: the image files and the
\* recipes file are as before the run, whatever --skip-existing is.
C17_DryRunWritesNothing ==
  (Caching /\ cch.dry_run) =>
    /\ cch.downloads = <<>>
    /\ cch.files = cch.files0
    /\ cch.disk = cch.orig
    /\ ~cch.wrote

\* A dry run with --skip-existing that found the target file: the entry was
\* updated in memory, and nothing was written.
C17_Witness ==
  /\ Caching
  /\ cch.pc = "done"
  /\ cch.dry_run
  /\ cch.skip_existing
  /\ cch.changed
  /\ cch.entries # cch.orig
  /\ cch.disk = cch.orig

\* An iteration of the step scan.
StepScanning == Segmenting /\ seg.pc = "steps" /\ seg.i <= Len(seg.lines)

\* C21: a bullet line gives a step only when a step exists: a bullet line
\* met with no step leaves the steps empty, the first step always comes
\* from a line of the step pattern and never from a bullet line.
C21_BulletNeedsAStep ==
  /\ [](Segmenting =>
          /\ Len(seg.made) = Len(seg.steps)
          /\ seg.made # <<>> =>
               /\ NumericText(seg.lines[seg.made[1]]) # None
               /\ seg.lines[seg.made[1]][1] \in Digits
                    \/ StartsWith(Lower(seg.lines[seg.made[1]]), StepWord)
               /\ ~IsBulletLine(seg.lines[seg.made[1]])
               /\ \A k \in seg.start_idx..(seg.made[1] - 1) :
                    IsBulletLine(seg.lines[k]) => \A n \in 1..Len(seg.made) : seg.made[n] # k)
  /\ [][(StepScanning /\ seg.steps = <<>> /\ IsBulletLine(seg.lines[seg.i])) =>
          (seg'.steps = <<>> /\ seg'.made = <<>>)]_vars

\* A bullet line passed by before the first step, and one that gave the
\* second step.
C21_Witness ==
  /\ StepsReturned
  /\ seg.lines = <<LBulletStir, LMixFlour, LBulletStir>>
  /\ seg.start_idx = 1
  /\ seg.made = <<2, 3>>
  /\ seg.steps[2] = <<"s", "t", "i", "r">>

\* The line starts with '#' or with "http".
EndsStepScan(line) ==
  StartsWith(line, <<"#">>) \/ StartsWith(Lower(line), <<"h", "t", "t", "p">>)

\* C22: a line starting with '#' or a url ends the step scan whatever was
\* collected, so that no line at or after the first such line gives or
\* joins a step; a line with a terminator keyword ends the scan only when
\* a step exists, and with no step the scan goes on to the next line.
C22_HashEndsTerminatorNeedsStep ==
  /\ [](Segmenting =>
          \A k \in seg.start_idx..Len(seg.lines) :
            EndsStepScan(seg.lines[k]) =>
              /\ seg.i <= k
              /\ \A n \in 1..Len(seg.made) : seg.made[n] < k)
  /\ [][StepScanning =>
          /\ EndsStepScan(seg.lines[seg.i]) =>
               seg' = [seg EXCEPT !.pc = "done"]
          /\ (~EndsStepScan(seg.lines[seg.i]) /\ HasTerminator(seg.lines[seg.i])) =>
               IF seg.steps # <<>>
               THEN seg' = [seg EXCEPT !.pc = "done"]
               ELSE seg'.pc = "steps" /\ seg'.i = seg.i + 1]_vars

\* A terminator line passed by with no step, the numbered line after it
\* collected, and the scan ended by a '#' line.
C22_Witness ==
  /\ StepsReturned
  /\ seg.lines = <<LEnjoy, LMixFlour, LHashtag>>
  /\ seg.start_idx = 1
  /\ seg.steps = <<<<"M", "i", "x", " ", "f", "l", "o", "u", "r", " ", "a", "n", "d", " ", "e", "g", "g">>>>
  /\ seg.i = 3

\* The places in the input of the items that ended as a record, and of
\* those that ended as a failure, in input order.
RecordPlaces == SelectSeq([k \in 1..Len(run.log) |-> k], LAMBDA k : run.log[k] = "record")

FailurePlaces == SelectSeq([k \in 1..Len(run.log) |-> k], LAMBDA k : run.log[k] # "record")

\* C25: the records are in the relative order of their (title, url) pairs,
\* the failures likewise, and both lists only grow at their end: a step
\* leaves every element already there as it is and where it is.
C25_InputOrderStable ==
  /\ [](Running =>
          /\ Len(run.results) = Len(RecordPlaces)
          /\ Len(run.failures) = Len(FailurePlaces)
          /\ \A k \in 1..Len(run.results) :
               run.results[k].title = to_ascii(run.pairs[RecordPlaces[k]].title)
          /\ \A k \in 1..Len(run.failures) :
               /\ run.failures[k].title = run.pairs[FailurePlaces[k]].title
               /\ run.failures[k].url = run.pairs[FailurePlaces[k]].url
          /\ run.pc = "done" => run.payload.recipes = run.results)
  /\ [][Running =>
          /\ Len(run'.results) >= Len(run.results)
          /\ Len(run'.failures) >= Len(run.failures)
          /\ SubSeq(run'.results, 1, Len(run.results)) = run.results
          /\ SubSeq(run'.failures, 1, Len(run.failures)) = run.failures]_vars

\* Two records of different titles, in the order of their pairs.
C25_Witness ==
  /\ Running
  /\ run.pc = "done"
  /\ Len(run.results) = 2
  /\ run.results[1].title # run.results[2].title
  /\ run.results[1].title = to_ascii(run.pairs[1].title)

\* The entry's imageUrl is not what it was before the run.
Repointed(n) == cch.entries[n].imageUrl # cch.orig[n].imageUrl

\* The url is the path, or the public path, of a file of the image directory.
NamesCachedFile(url) ==
  \E f \in cch.files : url = f \/ url = to_public_path(f)

\* The image directory is outside public/.
OutsidePublic == to_public_path(cch.image_dir \o <<"/">>) = None

MaxTitles == 3

TitlePie2 == <<"P", "i", "e", " ", "2">>
TitlePieBang == <<"P", "I", "E", "!">>

SlugTitles == {TitlePie, TitlePie2, TitlePieBang}

\* The entries of a recipes file none of which has been cached: each has a
\* title, a remote imageUrl and, for cache_source_preview_images, a
\* sourceUrl.
SlugRecipes(script) ==
  {Recipe(title, UrlPng, IF script = "previews" THEN BaseUrl ELSE None) : title \in SlugTitles}

SlugInit ==
  /\ \E script \in {"images", "previews"}, skip_existing \in BOOLEAN, dry_run \in BOOLEAN :
       \E entries \in SeqsUpTo(SlugRecipes(script), MaxTitles) :
         cch = Cache(script, entries, <<"p", "u", "b", "l", "i", "c", "/", "i", "m", "a", "g", "e", "s", "/", "r", "e", "c", "i", "p", "e", "s">>, {}, skip_existing, dry_run)
  /\ dec = Idle /\ pr = Idle /\ tok = Idle /\ run = Idle
  /\ res = Idle /\ seg = Idle /\ cls = Idle

SpecSlugs == SlugInit /\ [][CacheNext]_vars

\* C26: within one call of update_recipes no two entries that reach the
\* slug step get the same final slug, and no two entries are pointed at the
\* same cached file.
C26_FinalSlugsDistinct ==
  Caching =>
    /\ \A a, b \in 1..Len(cch.slugs) :
         a # b => cch.slugs[a].final_slug # cch.slugs[b].final_slug
    /\ \A n, m \in 1..Len(cch.entries) :
         (n # m /\ Repointed(n) /\ Repointed(m)) =>
           cch.entries[n].imageUrl # cch.entries[m].imageUrl

(***************************************************************************)
(* cache_recipe_images run again and again on the recipes file and the     *)
(* image directory the run before left.                                    *)
(***************************************************************************)
MaxRuns == 2

\* main of cache_recipe_images once more: load_recipes reads what the last
\* run wrote, and the image directory holds what the last run left in it.
Rerun(c, skip_existing, dry_run) ==
  [Cache("images", c.disk, c.image_dir, c.files, skip_existing, dry_run)
     EXCEPT !.runs = c.runs + 1, !.dir = TRUE, !.files0 = c.files0]

\* The entries of a recipes file none of which has been cached.
RunRecipes ==
  {Recipe(TitlePie, UrlPng, None),
   Recipe(TitlePie, UrlNoSuffix, None),
   Recipe(TitleBang, UrlPng, None),
   Recipe(None, UrlData, None)}

RunsInit ==
  /\ \E image_dir \in ImageDirs, skip_existing \in BOOLEAN, dry_run \in BOOLEAN :
       \E entries \in SeqsUpTo(RunRecipes, MaxEntries) :
         cch = Cache("images", entries, image_dir, {}, skip_existing, dry_run)
  /\ dec = Idle /\ pr = Idle /\ tok = Idle /\ run = Idle
  /\ res = Idle /\ seg = Idle /\ cls = Idle

\* cache_recipe_images is run once more, with any flags.
ImgAgain ==
  /\ cch.pc = "done" /\ cch.script = "images"
  /\ cch.runs < MaxRuns
  /\ \E skip_existing \in BOOLEAN, dry_run \in BOOLEAN :
       cch' = Rerun(cch, skip_existing, dry_run)
  /\ UNCHANGED <<dec, pr, tok, run, res, seg, cls>>

RunsNext == ImgStart \/ ImgStep \/ ImgMain \/ ImgAgain

SpecRuns == RunsInit /\ [][RunsNext]_vars

\* C27: over any sequence of runs of cache_recipe_images, no two entries of
\* the recipes file are pointed at the same cached file.
C27_NoSharedCachedFile ==
  Caching =>
    \A n, m \in 1..Len(cch.disk) :
      (n # m /\ NamesCachedFile(cch.disk[n].imageUrl)) =>
        cch.disk[n].imageUrl # cch.disk[m].imageUrl
=============================================================================
